---- MODULE Spec2Model ----
(***************************************************************************)
(* ZaroHR-Insights analytics engine (backend/app/main.py).                 *)
(*                                                                         *)
(* The store is the database: the tables "Upload", "DashboardMonth" and     *)
(* employee_dashboard_master of the analytics, the tables "Organization",  *)
(* "User", "PasswordReset" and "DashboardRelease" of the accounts, and the *)
(* clock that NOW() reads.                                                 *)
(* Every analytics endpoint first evaluates the snapshot CTE               *)
(* (_build_snapshot_cte) over the store and then its own query; the rows   *)
(* fetched and the JSON payload built from them are kept in the state.     *)
(*                                                                         *)
(* Dates are day-precision values encoded as the integer yyyymmdd, so that *)
(* the SQL comparisons <, <=, >= are the integer comparisons.  Ratios that *)
(* Python or SQL compute in floating point are exact fractions here.       *)
(***************************************************************************)
EXTENDS Integers, Sequences, FiniteSets, TLC

VARIABLES
    Upload,                     \* table "Upload": id -> row
    DashboardMonth,             \* table "DashboardMonth": set of rows
    employee_dashboard_master,  \* table employee_dashboard_master: set of rows
    Organization,               \* table "Organization": set of ids
    User,                       \* table "User": id -> row
    PasswordReset,              \* table "PasswordReset": set of rows
    DashboardRelease,           \* table "DashboardRelease": set of rows
    now,                        \* the clock of the database, NOW()
    request,                    \* the parameters of the last request served
    snapshot,                   \* the snapshot CTE as the last query evaluated it
    rows,                       \* what fetch_all returned to the handler
    response                    \* the payload the handler returned

analytics == <<Upload, DashboardMonth, employee_dashboard_master>>
accounts == <<Organization, User, PasswordReset, DashboardRelease, now>>
store == <<analytics, accounts>>
vars == <<store, request, snapshot, rows, response>>

(***************************************************************************)
(* Bounds of the model.                                                    *)
(***************************************************************************)
MaxRecords == 2     \* rows of employee_dashboard_master in a store
MaxCount == 2       \* largest headcount / exit count of a drawn attrition row
MaxResets == 2      \* rows of "PasswordReset"
MaxTime == 3        \* hours the clock runs

(***************************************************************************)
(* SQL NULL / Python None.                                                 *)
(***************************************************************************)
NULL == "NULL"      \* NULL of a text column, None of a parameter
NullDate == 0       \* NULL of a date column ("DOJ", "Final LWD")
NoInt == -1         \* NULL of a numeric column ("CTC", months_covered)

(***************************************************************************)
(* Calendar.                                                               *)
(***************************************************************************)
MakeDate(y, m, d) == y * 10000 + m * 100 + d
YearOf(x) == x \div 10000
MonthOf(x) == (x \div 100) % 100
DayOf(x) == x % 100

\* _days_in_month, and the Gregorian calendar PostgreSQL uses
_days_in_month(year, month) ==
    IF month \in {1, 3, 5, 7, 8, 10, 12} THEN 31
    ELSE IF month \in {4, 6, 9, 11} THEN 30
    ELSE IF (year % 4 = 0 /\ year % 100 # 0) \/ (year % 400 = 0) THEN 29
    ELSE 28

IsDate(x) ==
    /\ MonthOf(x) \in 1..12
    /\ DayOf(x) \in 1.._days_in_month(YearOf(x), MonthOf(x))

Min(a, b) == IF a <= b THEN a ELSE b
Max(a, b) == IF a >= b THEN a ELSE b

\* date + INTERVAL 'n months' (n may be negative): the day is clamped to the
\* length of the target month, as PostgreSQL and _shift_months both do
AddMonths(x, n) ==
    LET k == YearOf(x) * 12 + (MonthOf(x) - 1) + n
        y == k \div 12
        m == (k % 12) + 1
    IN MakeDate(y, m, Min(DayOf(x), _days_in_month(y, m)))

\* date + INTERVAL '1 day'
AddDay(x) ==
    IF DayOf(x) < _days_in_month(YearOf(x), MonthOf(x)) THEN x + 1
    ELSE AddMonths(MakeDate(YearOf(x), MonthOf(x), 1), 1)

\* date - INTERVAL '1 day'
SubDay(x) ==
    IF DayOf(x) > 1 THEN x - 1
    ELSE LET p == AddMonths(x, -1)
         IN MakeDate(YearOf(p), MonthOf(p), _days_in_month(YearOf(p), MonthOf(p)))

\* date_trunc(grain, x) for grain in month, quarter, year
date_trunc(grain, x) ==
    CASE grain = "month" -> MakeDate(YearOf(x), MonthOf(x), 1)
      [] grain = "quarter" -> MakeDate(YearOf(x), ((MonthOf(x) - 1) \div 3) * 3 + 1, 1)
      [] grain = "year" -> MakeDate(YearOf(x), 1, 1)

\* months in one step of the series: '1 month', '3 months', '1 year'
StepMonths(grain) ==
    CASE grain = "month" -> 1
      [] grain = "quarter" -> 3
      [] grain = "year" -> 12

\* the grain of a granularity
Grain(granularity) ==
    CASE granularity = "monthly" -> "month"
      [] granularity = "quarterly" -> "quarter"
      [] granularity = "yearly" -> "year"

(***************************************************************************)
(* Exact fractions for the float results.                                  *)
(***************************************************************************)
RECURSIVE Gcd(_, _)
Gcd(a, b) == IF b = 0 THEN a ELSE Gcd(b, a % b)

Abs(a) == IF a < 0 THEN -a ELSE a

\* n / d with d # 0, in lowest terms with a positive denominator
Frac(n, d) ==
    LET g == Gcd(Abs(n), Abs(d))
        s == IF d < 0 THEN -1 ELSE 1
    IN [num |-> s * (n \div g), den |-> s * (d \div g)]

Zero == Frac(0, 1)
One == Frac(1, 1)
FracIsZero(a) == a.num = 0 /\ a.den # 0

\* what a computation holds once a division has raised ZeroDivisionError
ZeroDivisionError == [num |-> 0, den |-> 0]

FracMul(a, b) ==
    IF a.den = 0 \/ b.den = 0 THEN ZeroDivisionError
    ELSE Frac(a.num * b.num, a.den * b.den)

FracAdd(a, b) ==
    IF a.den = 0 \/ b.den = 0 THEN ZeroDivisionError
    ELSE Frac(a.num * b.den + b.num * a.den, a.den * b.den)

\* Python a / b on numbers held as fractions
PyDiv(a, b) ==
    IF a.den = 0 \/ b.den = 0 \/ b.num = 0 THEN ZeroDivisionError
    ELSE Frac(a.num * b.den, a.den * b.num)

RECURSIVE SumSeq(_)
SumSeq(s) == IF s = <<>> THEN 0 ELSE Head(s) + SumSeq(Tail(s))

RECURSIVE FracSumSeq(_)
FracSumSeq(s) == IF s = <<>> THEN Zero ELSE FracAdd(Head(s), FracSumSeq(Tail(s)))

(***************************************************************************)
(* The snapshot CTE: ranked / latest and joined_first / earliest_join.     *)
(***************************************************************************)
\* ed.id::text
IdText(id) == ToString(id)

\* COALESCE(ed."New Emp ID", ed."Emp ID", ed.id::text)
IdentityKey(ed) ==
    IF ed.NewEmpID # NULL THEN ed.NewEmpID
    ELSE IF ed.EmpID # NULL THEN ed.EmpID
    ELSE IdText(ed.id)

\* a faulty variant: the organization clause is left out of the CTE
InScope_NoOrgClause(ed, organization_id, dashboard_month_id) ==
    /\ ed.uploadId \in DOMAIN Upload
    /\ dashboard_month_id # NULL => Upload[ed.uploadId].dashboardMonthId = dashboard_month_id

\* FROM employee_dashboard_master ed JOIN "Upload" u ON u.id = ed."uploadId"
\* WHERE 1 = 1 {org_clause} {month_clause}
InScope(ed, organization_id, dashboard_month_id) ==
    /\ ed.uploadId \in DOMAIN Upload
    /\ organization_id # NULL => Upload[ed.uploadId].organizationId = organization_id
    /\ dashboard_month_id # NULL => Upload[ed.uploadId].dashboardMonthId = dashboard_month_id

Scoped(organization_id, dashboard_month_id) ==
    {ed \in employee_dashboard_master : InScope(ed, organization_id, dashboard_month_id)}

\* a faulty variant: the ranking forgets uploadedAt (ORDER BY ed.id DESC)
RankedBefore_IdOnly(a, b) == a.id > b.id

\* ORDER BY u."uploadedAt" DESC, ed.id DESC : a sorts before b
RankedBefore(a, b) ==
    \/ Upload[a.uploadId].uploadedAt > Upload[b.uploadId].uploadedAt
    \/ /\ Upload[a.uploadId].uploadedAt = Upload[b.uploadId].uploadedAt
       /\ a.id > b.id

\* ROW_NUMBER() OVER (PARTITION BY key ORDER BY ...) of row ed in ranked
ranked_rn(ed, organization_id, dashboard_month_id) ==
    1 + Cardinality({o \in Scoped(organization_id, dashboard_month_id) :
                        /\ IdentityKey(o) = IdentityKey(ed)
                        /\ RankedBefore(o, ed)})

\* latest AS (SELECT * FROM ranked WHERE rn = 1)
latest(organization_id, dashboard_month_id) ==
    {ed \in Scoped(organization_id, dashboard_month_id) :
        ranked_rn(ed, organization_id, dashboard_month_id) = 1}

\* a faulty variant: the ranking forgets the join date (ORDER BY ed.id ASC)
JoinedBefore_IdOnly(a, b) == a.id < b.id

\* ORDER BY ed."DOJ" ASC NULLS LAST, ed.id ASC : a sorts before b
JoinedBefore(a, b) ==
    \/ a.DOJ < b.DOJ
    \/ a.DOJ = b.DOJ /\ a.id < b.id

\* rows of joined_first: WHERE ed."DOJ" IS NOT NULL {org_clause} {month_clause}
joined_first(organization_id, dashboard_month_id) ==
    {ed \in Scoped(organization_id, dashboard_month_id) : ed.DOJ # NullDate}

joined_first_rn(ed, organization_id, dashboard_month_id) ==
    1 + Cardinality({o \in joined_first(organization_id, dashboard_month_id) :
                        /\ IdentityKey(o) = IdentityKey(ed)
                        /\ JoinedBefore(o, ed)})

\* earliest_join AS (SELECT * FROM joined_first WHERE rn = 1 AND "DOJ" IS NOT NULL)
earliest_join(organization_id, dashboard_month_id) ==
    {ed \in joined_first(organization_id, dashboard_month_id) :
        /\ joined_first_rn(ed, organization_id, dashboard_month_id) = 1
        /\ ed.DOJ # NullDate}

(***************************************************************************)
(* Month keys: _month_range_from_key.  No handler calls it.                *)
(***************************************************************************)
\* month_key.split("-", 1) on the keys of the model: one part when there is no
\* dash, else the text before and the text after the first dash
SplitOnDash(month_key) ==
    CASE month_key = "2024-02" -> <<"2024", "02">>
      [] month_key = "2023-02" -> <<"2023", "02">>
      [] month_key = "2024-06" -> <<"2024", "06">>
      [] month_key = "2024-07" -> <<"2024", "07">>
      [] month_key = "2024-13" -> <<"2024", "13">>
      [] month_key = "2024-00" -> <<"2024", "00">>
      [] month_key = "2024-xx" -> <<"2024", "xx">>
      [] OTHER -> <<month_key>>

\* int(text): the number, NoInt standing for ValueError
IntOf(text) ==
    CASE text = "2024" -> 2024
      [] text = "2023" -> 2023
      [] text = "00" -> 0
      [] text = "02" -> 2
      [] text = "06" -> 6
      [] text = "07" -> 7
      [] text = "13" -> 13
      [] OTHER -> NoInt

\* _month_range_from_key: 400 on a key that does not unpack into two integers or
\* whose month is outside 1..12, else the first and the last day of the month
_month_range_from_key(month_key) ==
    LET parts == SplitOnDash(month_key)
    IN IF Len(parts) # 2 \/ IntOf(parts[1]) = NoInt \/ IntOf(parts[Len(parts)]) = NoInt
       THEN [status |-> 400, detail |-> "Invalid month key format."]
       ELSE IF IntOf(parts[2]) < 1 \/ IntOf(parts[2]) > 12
       THEN [status |-> 400, detail |-> "Invalid month key value."]
       ELSE [status |-> 200,
             first |-> MakeDate(IntOf(parts[1]), IntOf(parts[2]), 1),
             last |-> MakeDate(IntOf(parts[1]), IntOf(parts[2]),
                               _days_in_month(IntOf(parts[1]), IntOf(parts[2])))]

(***************************************************************************)
(* Scope resolution.                                                       *)
(***************************************************************************)
\* Python `value or None` on an optional string
OrNone(value) == IF value = "" THEN NULL ELSE value

\* a faulty variant: the month key is not looked up, no month is resolved
_resolve_org_month_scope_NoLookup(organization_id, month_key) ==
    {[status |-> 200, org_id |-> OrNone(organization_id), dashboard_month_id |-> NULL,
      month_key |-> OrNone(month_key)]}

\* _resolve_org_month_scope: the set of results the two fetch_one calls can
\* give (ORDER BY u."uploadedAt" DESC LIMIT 1 picks any of the rows that tie)
_resolve_org_month_scope(organization_id, month_key) ==
    LET org_id == OrNone(organization_id)
        resolved_month_key == OrNone(month_key)
        found == {dm \in DashboardMonth : dm.monthKey = resolved_month_key}
        candidates == {u \in DOMAIN Upload :
                          /\ Upload[u].organizationId = org_id
                          /\ Upload[u].dashboardMonthId # NULL}
        newest == {u \in candidates :
                      \A o \in candidates : Upload[o].uploadedAt <= Upload[u].uploadedAt}
        keyOf(m) == IF \E dm \in DashboardMonth : dm.id = m
                    THEN (CHOOSE dm \in DashboardMonth : dm.id = m).monthKey
                    ELSE NULL
    IN IF resolved_month_key # NULL
       THEN IF found = {}
            THEN {[status |-> 404, org_id |-> org_id, dashboard_month_id |-> NULL,
                   month_key |-> resolved_month_key]}
            ELSE {[status |-> 200, org_id |-> org_id, dashboard_month_id |-> dm.id,
                   month_key |-> resolved_month_key] : dm \in found}
       ELSE IF org_id # NULL /\ newest # {}
       THEN {[status |-> 200, org_id |-> org_id,
              dashboard_month_id |-> Upload[u].dashboardMonthId,
              month_key |-> keyOf(Upload[u].dashboardMonthId)] : u \in newest}
       ELSE {[status |-> 200, org_id |-> org_id, dashboard_month_id |-> NULL,
              month_key |-> NULL]}

\* the CTE as a query evaluates it for the resolved scope
SnapshotOf(org_id, dashboard_month_id) ==
    [organization_id |-> org_id,
     dashboard_month_id |-> dashboard_month_id,
     latest |-> latest(org_id, dashboard_month_id),
     earliest_join |-> earliest_join(org_id, dashboard_month_id)]

NoSnapshot ==
    [organization_id |-> NULL, dashboard_month_id |-> NULL,
     latest |-> {}, earliest_join |-> {}]

\* entity_filter = [entity for entity in (entities or []) if entity]
EntityFilter(entities) == entities \ {""}

\* {entity_clause}: AND ed."Entity" = ANY(%(entities)s), present iff bool(entity_filter)
EntityClause(ed, entity_filter) ==
    entity_filter # {} => ed.Entity \in entity_filter

(***************************************************************************)
(* Rows and text helpers.                                                  *)
(***************************************************************************)
\* a row of employee_dashboard_master
Record(id, uploadId, newEmpId, empId, doj, lwd, entity, worklevel, gender, ctc, location, age, tenure) ==
    [id |-> id, uploadId |-> uploadId, NewEmpID |-> newEmpId, EmpID |-> empId,
     DOJ |-> doj, FinalLWD |-> lwd, Entity |-> entity, Worklevel |-> worklevel,
     Gender |-> gender, CTC |-> ctc, PhysicalLocation |-> location,
     PayrollLocation |-> location, Age |-> age, Tenure |-> tenure]

\* TRIM(text) on the texts of the model: blanks only -> empty
Trim(text) == IF text \in {"", " ", "  "} THEN "" ELSE text

\* the collation order of the texts that rows are sorted by
TextOrder == <<"", "E1", "E2", "L1", "L2", "Mumbai", "Pune", "Unspecified">>
TextRank(text) == CHOOSE i \in DOMAIN TextOrder : TextOrder[i] = text

\* a set as a sequence, to be sorted by SortSeq
RECURSIVE SetToSeq(_)
SetToSeq(S) ==
    IF S = {} THEN <<>>
    ELSE LET x == CHOOSE x \in S : TRUE IN <<x>> \o SetToSeq(S \ {x})

(***************************************************************************)
(* GET /analytics/location-headcount                                       *)
(***************************************************************************)
\* column_lookup.get(location_type)
LocationColumn(ed, location_type) ==
    CASE location_type = "physical" -> ed.PhysicalLocation
      [] location_type = "entity" -> ed.Entity
      [] location_type = "payroll" -> ed.PayrollLocation

\* COALESCE(NULLIF(TRIM(column), ''), 'Unspecified')
LocationLabel(ed, location_type) ==
    LET col == LocationColumn(ed, location_type)
    IN IF col = NULL \/ Trim(col) = "" THEN "Unspecified" ELSE Trim(col)

\* a faulty variant: the last working day itself still counts (cutoff <= "Final LWD")
ActiveAtCutoff_Inclusive(ed, cutoff) ==
    /\ ed.DOJ # NullDate
    /\ ed.DOJ <= cutoff
    /\ (ed.FinalLWD = NullDate \/ cutoff <= ed.FinalLWD)

\* WHERE ed."DOJ" IS NOT NULL AND ed."DOJ" <= cutoff
\*   AND (ed."Final LWD" IS NULL OR cutoff < ed."Final LWD")
ActiveAtCutoff(ed, cutoff) ==
    /\ ed.DOJ # NullDate
    /\ ed.DOJ <= cutoff
    /\ (ed.FinalLWD = NullDate \/ cutoff < ed.FinalLWD)

\* ORDER BY headcount DESC, location
LocationRowBefore(a, b) ==
    \/ a.headcount > b.headcount
    \/ a.headcount = b.headcount /\ TextRank(a.location) < TextRank(b.location)

\* the rows of _build_location_headcount_sql over the snapshot snap
_build_location_headcount_sql(snap, location_type, cutoff, entities) ==
    LET active == {ed \in snap.latest :
                      ActiveAtCutoff(ed, cutoff) /\ EntityClause(ed, entities)}
        labels == {LocationLabel(ed, location_type) : ed \in active}
        group(l) == {ed \in active : LocationLabel(ed, location_type) = l}
    IN SortSeq(SetToSeq({[location |-> l, headcount |-> Cardinality(group(l))] : l \in labels}),
                 LocationRowBefore)

\* ((row["headcount"] or 0) / total) if total else 0.0
LocationPercentage(headcount, total) ==
    IF total # 0 THEN PyDiv(Frac(headcount, 1), Frac(total, 1)) ELSE Zero

\* the handler location_headcount; today is date.today()
LocationHeadcount(location_type, cutoff, today, entities, organization_id, month_key) ==
    \E scope \in _resolve_org_month_scope(organization_id, month_key) :
      \E resolved_cutoff \in {IF cutoff = NullDate THEN today ELSE cutoff},
         snap \in {SnapshotOf(scope.org_id, scope.dashboard_month_id)} :
      \E fetched \in {_build_location_headcount_sql(snap, location_type, resolved_cutoff,
                                                    EntityFilter(entities))} :
      \E total \in {SumSeq([i \in DOMAIN fetched |-> fetched[i].headcount])} :
           /\ request' = [endpoint |-> "location-headcount",
                          location_type |-> location_type, cutoff |-> cutoff,
                          today |-> today, entities |-> entities,
                          organization_id |-> organization_id, month_key |-> month_key]
           /\ IF scope.status = 404
              THEN /\ snapshot' = NoSnapshot
                   /\ rows' = <<>>
                   /\ response' = [status |-> 404, detail |-> "Dashboard month not found."]
              ELSE /\ snapshot' = snap
                   /\ rows' = fetched
                   /\ response' =
                        [status |-> 200,
                         locationType |-> location_type,
                         cutoff |-> resolved_cutoff,
                         monthKey |-> scope.month_key,
                         total |-> total,
                         locations |->
                            [i \in DOMAIN fetched |->
                                [location |-> fetched[i].location,
                                 headcount |-> fetched[i].headcount,
                                 percentage |-> LocationPercentage(fetched[i].headcount, total)]]]
           /\ UNCHANGED store

\* the account tables of a store that serves analytics only
NoAccounts ==
    /\ Organization = {}
    /\ User = <<>>
    /\ PasswordReset = {}
    /\ DashboardRelease = {}
    /\ now = 0

NoRequest == [endpoint |-> "none"]
NoResponse == [status |-> 0]

(***************************************************************************)
(* Period resolution.                                                      *)
(***************************************************************************)
_month_floor(value) == MakeDate(YearOf(value), MonthOf(value), 1)

_quarter_floor(value) == MakeDate(YearOf(value), ((MonthOf(value) - 1) \div 3) * 3 + 1, 1)

_year_floor(value) == MakeDate(YearOf(value), 1, 1)

\* a faulty variant: the year is not carried (year = value.year)
_shift_months_NoCarry(value, months) ==
    LET month == ((MonthOf(value) - 1 + months) % 12) + 1
        day == Min(DayOf(value), _days_in_month(YearOf(value), month))
    IN MakeDate(YearOf(value), month, day)

\* _shift_months(value, months)
_shift_months(value, months) ==
    LET year == YearOf(value) + ((MonthOf(value) - 1 + months) \div 12)
        month == ((MonthOf(value) - 1 + months) % 12) + 1
        day == Min(DayOf(value), _days_in_month(year, month))
    IN MakeDate(year, month, day)

\* floor_funcs[granularity](today)
GranularityFloor(granularity, value) ==
    CASE granularity = "monthly" -> _month_floor(value)
      [] granularity = "quarterly" -> _quarter_floor(value)
      [] granularity = "yearly" -> _year_floor(value)

\* a faulty variant: a range of one day is refused (resolved_end <= resolved_start)
_resolve_period_Strict(granularity, start, end, today) ==
    LET resolved_start == IF start # NullDate THEN start
                          ELSE _shift_months(GranularityFloor(granularity, today), -11)
        resolved_end == IF end # NullDate THEN end ELSE GranularityFloor(granularity, today)
    IN IF resolved_end <= resolved_start
       THEN [status |-> 400, start |-> resolved_start, end |-> resolved_end]
       ELSE [status |-> 200, start |-> resolved_start, end |-> resolved_end]

\* a faulty variant: the range is checked only when both bounds are supplied
_resolve_period_BothOnly(granularity, start, end, today) ==
    LET floored == GranularityFloor(granularity, today)
        start_default ==
            CASE granularity = "monthly" -> _shift_months(floored, -11)
              [] granularity = "quarterly" -> _shift_months(floored, (-15) * 3)
              [] granularity = "yearly" ->
                    MakeDate(YearOf(floored) + (-9), MonthOf(floored), DayOf(floored))
        resolved_start == IF start # NullDate THEN start ELSE start_default
        resolved_end == IF end # NullDate THEN end ELSE floored
    IN IF start # NullDate /\ end # NullDate /\ resolved_end < resolved_start
       THEN [status |-> 400, start |-> resolved_start, end |-> resolved_end]
       ELSE [status |-> 200, start |-> resolved_start, end |-> resolved_end]

\* _resolve_period; start / end are NullDate when not supplied
_resolve_period(granularity, start, end, today) ==
    LET floored == GranularityFloor(granularity, today)
        start_default ==
            CASE granularity = "monthly" -> _shift_months(floored, -11)
              [] granularity = "quarterly" -> _shift_months(floored, (-15) * 3)
              [] granularity = "yearly" ->
                    MakeDate(YearOf(floored) + (-9), MonthOf(floored), DayOf(floored))
        end_default == floored
        resolved_start == IF start # NullDate THEN start ELSE start_default
        resolved_end == IF end # NullDate THEN end ELSE end_default
    IN IF resolved_end < resolved_start
       THEN [status |-> 400, start |-> resolved_start, end |-> resolved_end]
       ELSE [status |-> 200, start |-> resolved_start, end |-> resolved_end]

(***************************************************************************)
(* GET /analytics/manpower-rampup                                          *)
(***************************************************************************)
\* a faulty variant: the point check LWD >= T in place of the bucket-close check
ManpowerCounted_PointCheck(ed, period_start, step, entities) ==
    /\ ed.DOJ # NullDate
    /\ ed.DOJ <= period_start
    /\ (ed.FinalLWD = NullDate \/ ed.FinalLWD >= period_start)
    /\ EntityClause(ed, entities)

\* the subquery of actuals: counted in the bucket that starts at period_start
ManpowerCounted(ed, period_start, step, entities) ==
    /\ ed.DOJ # NullDate
    /\ ed.DOJ <= period_start
    /\ (ed.FinalLWD = NullDate \/ ed.FinalLWD >= AddMonths(period_start, step))
    /\ EntityClause(ed, entities)

\* actuals: (SELECT COUNT(*) FROM latest ed WHERE ...)::int AS headcount
ManpowerHeadcount(population, period_start, step, entities) ==
    Cardinality({ed \in population : ManpowerCounted(ed, period_start, step, entities)})

\* a faulty variant: the lag is taken after the window filter, so nothing opens a point
ManpowerRow_NoOpening(period_start, headcount, lag) ==
    [period_start |-> period_start,
     headcount |-> headcount,
     opening_headcount |-> 0,
     ramp_change |-> headcount,
     ramp_pct |-> Zero]

\* one row of the final SELECT over enriched; lag is LAG(headcount), NoInt on the
\* first row of the series
ManpowerRow(period_start, headcount, lag) ==
    LET opening == IF lag = NoInt THEN 0 ELSE lag
    IN [period_start |-> period_start,
        headcount |-> headcount,
        opening_headcount |-> opening,
        ramp_change |-> headcount - opening,
        ramp_pct |-> IF opening = 0 THEN Zero ELSE Frac(headcount - lag, lag)]

\* series, actuals and enriched from period_start on, then the final
\* WHERE e.period_start >= b.start_period ORDER BY e.period_start
RECURSIVE ManpowerRows(_, _, _, _, _, _, _)
ManpowerRows(population, period_start, lag, start_period, end_period, step, entities) ==
    IF period_start > end_period THEN <<>>
    ELSE LET headcount == ManpowerHeadcount(population, period_start, step, entities)
             rest == ManpowerRows(population, AddMonths(period_start, step), headcount,
                                  start_period, end_period, step, entities)
         IN IF period_start >= start_period
            THEN <<ManpowerRow(period_start, headcount, lag)>> \o rest
            ELSE rest

\* the rows of _build_manpower_sql over the snapshot snap
_build_manpower_sql(snap, granularity, start, end, entities) ==
    LET grain == Grain(granularity)
        step == StepMonths(grain)
        start_period == date_trunc(grain, start)
        end_period == date_trunc(grain, end)
    IN ManpowerRows(snap.latest, AddMonths(start_period, -step), NoInt,
                    start_period, end_period, step, entities)

\* the handler manpower_rampup; today is date.today()
ManpowerRampup(granularity, start, end, today, entities, organization_id, month_key) ==
    \E scope \in _resolve_org_month_scope(organization_id, month_key) :
      \E period \in {_resolve_period(granularity, start, end, today)},
         snap \in {SnapshotOf(scope.org_id, scope.dashboard_month_id)} :
      \E fetched \in {_build_manpower_sql(snap, granularity, period.start, period.end,
                                          EntityFilter(entities))} :
           /\ request' = [endpoint |-> "manpower-rampup", granularity |-> granularity,
                          start |-> start, end |-> end, today |-> today,
                          entities |-> entities,
                          organization_id |-> organization_id, month_key |-> month_key]
           /\ IF scope.status = 404
              THEN /\ snapshot' = NoSnapshot
                   /\ rows' = <<>>
                   /\ response' = [status |-> 404, detail |-> "Dashboard month not found."]
              ELSE IF period.status = 400
              THEN /\ snapshot' = NoSnapshot
                   /\ rows' = <<>>
                   /\ response' = [status |-> 400, detail |-> "End date must be after start date."]
              ELSE /\ snapshot' = snap
                   /\ rows' = fetched
                   /\ response' =
                        [status |-> 200,
                         granularity |-> granularity,
                         start |-> period.start,
                         end |-> period.end,
                         monthKey |-> scope.month_key,
                         points |->
                            [i \in DOMAIN fetched |->
                                [periodStart |-> fetched[i].period_start,
                                 headcount |-> fetched[i].headcount,
                                 openingHeadcount |-> fetched[i].opening_headcount,
                                 rampChange |-> fetched[i].ramp_change,
                                 rampPct |-> fetched[i].ramp_pct]]]
           /\ UNCHANGED store

(***************************************************************************)
(* Hires and exits: _build_hires_sql and the handler hires_exits.          *)
(***************************************************************************)
\* WHERE date_trunc(grain, ej."DOJ") = period_start {entity_clause_join}
HiredIn(ej, grain, period_start, entities) ==
    /\ date_trunc(grain, ej.DOJ) = period_start
    /\ EntityClause(ej, entities)

\* a faulty variant: every exit up to the bucket counts ("Final LWD" not floored)
ExitedIn_Cumulative(ed, grain, period_start, entities) ==
    /\ ed.FinalLWD # NullDate
    /\ date_trunc(grain, ed.FinalLWD) <= period_start
    /\ EntityClause(ed, entities)

\* WHERE ed."Final LWD" IS NOT NULL AND date_trunc(grain, ed."Final LWD") = period_start
\*   {entity_clause}
ExitedIn(ed, grain, period_start, entities) ==
    /\ ed.FinalLWD # NullDate
    /\ date_trunc(grain, ed.FinalLWD) = period_start
    /\ EntityClause(ed, entities)

\* one row of the SELECT over series: the two correlated COUNT(*) subqueries
HiresRow(snap, grain, period_start, entities) ==
    [period_start |-> period_start,
     hires |-> Cardinality({ej \in snap.earliest_join :
                               HiredIn(ej, grain, period_start, entities)}),
     exits |-> Cardinality({ed \in snap.latest :
                               ExitedIn(ed, grain, period_start, entities)})]

\* FROM series ORDER BY period_start, series being generate_series(period_start,
\* end_period, step)
RECURSIVE HiresRows(_, _, _, _, _, _)
HiresRows(snap, grain, period_start, end_period, step, entities) ==
    IF period_start > end_period THEN <<>>
    ELSE <<HiresRow(snap, grain, period_start, entities)>>
           \o HiresRows(snap, grain, AddMonths(period_start, step), end_period, step,
                        entities)

_build_hires_sql(snap, granularity, start, end, entities) ==
    LET grain == Grain(granularity)
    IN HiresRows(snap, grain, date_trunc(grain, start), date_trunc(grain, end),
                 StepMonths(grain), entities)

\* the handler hires_exits; today is date.today()
HiresExits(granularity, start, end, today, entities, organization_id, month_key) ==
    \E scope \in _resolve_org_month_scope(organization_id, month_key) :
      \E period \in {_resolve_period(granularity, start, end, today)},
         snap \in {SnapshotOf(scope.org_id, scope.dashboard_month_id)} :
      \E fetched \in {_build_hires_sql(snap, granularity, period.start, period.end,
                                       EntityFilter(entities))} :
           /\ request' = [endpoint |-> "hires-exits", granularity |-> granularity,
                          start |-> start, end |-> end, today |-> today,
                          entities |-> entities,
                          organization_id |-> organization_id, month_key |-> month_key]
           /\ IF scope.status = 404
              THEN /\ snapshot' = NoSnapshot
                   /\ rows' = <<>>
                   /\ response' = [status |-> 404, detail |-> "Dashboard month not found."]
              ELSE IF period.status = 400
              THEN /\ snapshot' = NoSnapshot
                   /\ rows' = <<>>
                   /\ response' = [status |-> 400, detail |-> "End date must be after start date."]
              ELSE /\ snapshot' = snap
                   /\ rows' = fetched
                   /\ response' =
                        [status |-> 200,
                         granularity |-> granularity,
                         start |-> period.start,
                         end |-> period.end,
                         monthKey |-> scope.month_key,
                         points |->
                            [i \in DOMAIN fetched |->
                                [periodStart |-> fetched[i].period_start,
                                 hires |-> fetched[i].hires,
                                 exits |-> fetched[i].exits]]]
           /\ UNCHANGED store

(***************************************************************************)
(* _build_demographics_sql, _build_entity_demographics_sql and their       *)
(* handlers.                                                               *)
(***************************************************************************)
\* the first letter of a Gender text, in upper case
FirstLetter(text) ==
    IF text \in {"M", "m", "Male", "male"} THEN "M"
    ELSE IF text \in {"F", "f", "Female", "female"} THEN "F"
    ELSE IF text = "Other" THEN "O"
    ELSE ""

\* a faulty variant: the match minds the case (LIKE instead of ILIKE)
GenderLike_CaseSensitive(ed, letter) ==
    ed.Gender # NULL /\ ed.Gender \in {"M", "Male", "F", "Female"}
                     /\ FirstLetter(ed.Gender) = letter

\* ed."Gender" ILIKE 'M%%' and ILIKE 'F%%': NULL matches neither
GenderLike(ed, letter) == ed.Gender # NULL /\ FirstLetter(ed.Gender) = letter

\* NULL of a float column, None in Python
NoFloat == [none |-> TRUE]

\* the column the query groups by: ed."Worklevel" AS worklevel, ed."Entity" AS entity
GroupingKey(ed, dimension) == IF dimension = "worklevel" THEN ed.Worklevel ELSE ed.Entity

\* a faulty variant: the cutoff rule whatever the request (apply_range ignored)
DemographicsActive_CutoffOnly(ed, apply_range, start, end, entity_filter) ==
    /\ ed.DOJ # NullDate
    /\ ed.DOJ <= end /\ (ed.FinalLWD = NullDate \/ end < ed.FinalLWD)
    /\ EntityClause(ed, entity_filter)

\* WHERE ed."DOJ" IS NOT NULL {range_clause} {entity_clause}
DemographicsActive(ed, apply_range, start, end, entity_filter) ==
    /\ ed.DOJ # NullDate
    /\ IF apply_range
       THEN ed.DOJ <= end /\ (ed.FinalLWD = NullDate \/ ed.FinalLWD >= start)
       ELSE ed.DOJ <= end /\ (ed.FinalLWD = NullDate \/ end < ed.FinalLWD)
    /\ EntityClause(ed, entity_filter)

\* SUM(column) over the rows of group with a value, NULL when none has one
SumColumn(group, column) ==
    LET valued == {ed \in group : ed[column] # NoInt}
        ordered == SetToSeq(valued)
    IN IF valued = {} THEN NoInt
       ELSE SumSeq([i \in DOMAIN ordered |-> ordered[i][column]])

\* AVG(column)::float
AvgColumn(group, column) ==
    LET valued == {ed \in group : ed[column] # NoInt}
    IN IF valued = {} THEN NoFloat
       ELSE Frac(SumColumn(group, column), Cardinality(valued))

\* SUM(CASE WHEN gender ILIKE letter% THEN 1 ELSE 0 END)::int, NULL over no rows
GenderCount(group, letter) ==
    IF group = {} THEN NoInt
    ELSE Cardinality({ed \in group : GenderLike(ed, letter)})

\* one row of GROUP BY ROLLUP(dimension): key is the value of the group, NULL
\* for the grand total
DemographicsRow(dimension, key, group) ==
    (dimension :> key)
    @@ [headcount |-> Cardinality(group),
        avg_ctc |-> AvgColumn(group, "CTC"),
        avg_age |-> AvgColumn(group, "Age"),
        avg_tenure |-> AvgColumn(group, "Tenure"),
        total_ctc |-> SumColumn(group, "CTC"),
        female_count |-> GenderCount(group, "F"),
        male_count |-> GenderCount(group, "M")]

\* ORDER BY ..., worklevel within the rows of a non-NULL key
TextBefore(a, b) == TextRank(a) < TextRank(b)

\* the results the query can return: the groups of the non-NULL keys in order,
\* then the rows whose key is NULL, which are the group of the NULL key (if
\* there is one) and the grand total, in either order: the ORDER BY does not
\* tell them apart
demographics_sql(snap, dimension, apply_range, start, end, entity_filter) ==
    LET active == {ed \in snap.latest :
                      DemographicsActive(ed, apply_range, start, end, entity_filter)}
        group(key) == {ed \in active : GroupingKey(ed, dimension) = key}
        keys == SortSeq(SetToSeq({GroupingKey(ed, dimension) : ed \in active} \ {NULL}),
                        TextBefore)
        keyed == [i \in DOMAIN keys |-> DemographicsRow(dimension, keys[i], group(keys[i]))]
        null_group == DemographicsRow(dimension, NULL, group(NULL))
        grand_total == DemographicsRow(dimension, NULL, active)
    IN IF group(NULL) = {}
       THEN {keyed \o <<grand_total>>}
       ELSE {keyed \o <<null_group, grand_total>>, keyed \o <<grand_total, null_group>>}

\* float(value) / denom if denom else 0.0
_pct(value, denom) ==
    IF denom # 0 THEN PyDiv(Frac(value, 1), Frac(denom, 1)) ELSE Zero

\* next((row for row in rows if row[dimension] is None), None) or {defaults}
TotalsRow(fetched, dimension) ==
    LET nulls == {i \in DOMAIN fetched : fetched[i][dimension] = NULL}
    IN IF nulls = {}
       THEN [headcount |-> 0, total_ctc |-> 0, avg_ctc |-> NoFloat, avg_age |-> NoFloat,
             avg_tenure |-> NoFloat, female_count |-> 0, male_count |-> 0]
       ELSE fetched[CHOOSE i \in nulls : \A j \in nulls : i <= j]

\* the rows the loop lists: for row in rows, skipping row[dimension] is None
RECURSIVE ListedRows(_, _)
ListedRows(fetched, dimension) ==
    IF fetched = <<>> THEN <<>>
    ELSE (IF Head(fetched)[dimension] = NULL THEN <<>> ELSE <<Head(fetched)>>)
           \o ListedRows(Tail(fetched), dimension)

\* value or 0 on a number that may be None
OrZero(value) == IF value = NoInt THEN 0 ELSE value

\* key or "Unspecified" on a text that is not None
OrUnspecified(text) == IF text = "" THEN "Unspecified" ELSE text

\* the payload demographics_overview builds from the fetched rows
DemographicsPayload(fetched, granularity, period, resolved_month_key) ==
    IF fetched = <<>>
    THEN [status |-> 200, granularity |-> granularity, start |-> period.start,
          end |-> period.end, monthKey |-> resolved_month_key,
          averages |-> [ctc |-> NoFloat, age |-> NoFloat, tenure |-> NoFloat],
          genderRatio |-> [male |-> Zero, female |-> Zero, other |-> Zero],
          worklevels |-> <<>>]
    ELSE
    LET totals == TotalsRow(fetched, "worklevel")
        total_headcount == OrZero(totals.headcount)
        total_cost == OrZero(totals.total_ctc)
        female_count == OrZero(totals.female_count)
        male_count == OrZero(totals.male_count)
        other_count == Max(total_headcount - female_count - male_count, 0)
        listed == ListedRows(fetched, "worklevel")
    IN [status |-> 200, granularity |-> granularity, start |-> period.start,
        end |-> period.end, monthKey |-> resolved_month_key,
        averages |-> [ctc |-> totals.avg_ctc, age |-> totals.avg_age,
                      tenure |-> totals.avg_tenure],
        genderRatio |-> [male |-> _pct(male_count, total_headcount),
                         female |-> _pct(female_count, total_headcount),
                         other |-> _pct(other_count, total_headcount)],
        worklevels |->
           [i \in DOMAIN listed |->
               [worklevel |-> OrUnspecified(listed[i].worklevel),
                headcount |-> OrZero(listed[i].headcount),
                headcountPct |-> _pct(OrZero(listed[i].headcount), total_headcount),
                costPct |-> _pct(OrZero(listed[i].total_ctc), total_cost),
                femalePct |-> _pct(OrZero(listed[i].female_count),
                                   OrZero(listed[i].headcount)),
                avgTenure |-> listed[i].avg_tenure,
                avgAge |-> listed[i].avg_age,
                isTotal |-> FALSE]]
           \o <<[worklevel |-> "Total",
                 headcount |-> total_headcount,
                 headcountPct |-> IF total_headcount # 0 THEN One ELSE Zero,
                 costPct |-> IF total_cost # 0 THEN One ELSE Zero,
                 femalePct |-> _pct(female_count, total_headcount),
                 avgTenure |-> totals.avg_tenure,
                 avgAge |-> totals.avg_age,
                 isTotal |-> TRUE]>>]

\* the payload entity_demographics builds from the fetched rows
EntityDemographicsPayload(fetched, granularity, period, resolved_month_key) ==
    IF fetched = <<>>
    THEN [status |-> 200, granularity |-> granularity, start |-> period.start,
          end |-> period.end, entities |-> <<>>]
    ELSE
    LET totals == TotalsRow(fetched, "entity")
        total_headcount == OrZero(totals.headcount)
        total_cost == OrZero(totals.total_ctc)
        listed == ListedRows(fetched, "entity")
    IN [status |-> 200, granularity |-> granularity, start |-> period.start,
        end |-> period.end, monthKey |-> resolved_month_key,
        entities |->
           [i \in DOMAIN listed |->
               [entity |-> OrUnspecified(listed[i].entity),
                headcount |-> OrZero(listed[i].headcount),
                headcountPct |-> _pct(OrZero(listed[i].headcount), total_headcount),
                costPct |-> _pct(OrZero(listed[i].total_ctc), total_cost),
                femalePct |-> _pct(OrZero(listed[i].female_count),
                                   OrZero(listed[i].headcount)),
                avgTenure |-> listed[i].avg_tenure,
                avgAge |-> listed[i].avg_age]]]

\* GET /analytics/demographics (dimension worklevel) and
\* GET /analytics/demographics/entities (dimension entity): scope, period, the
\* query with apply_range = start is not None or end is not None, the payload
Demographics(dimension, granularity, start, end, today, entities, organization_id, month_key) ==
    \E scope \in _resolve_org_month_scope(organization_id, month_key) :
      \E period \in {_resolve_period(granularity, start, end, today)},
         snap \in {SnapshotOf(scope.org_id, scope.dashboard_month_id)} :
      \E fetched \in
            (IF scope.status = 404 \/ period.status = 400 THEN {<<>>}
             ELSE demographics_sql(snap, dimension, start # NullDate \/ end # NullDate,
                                   period.start, period.end, EntityFilter(entities))) :
           /\ request' = [endpoint |-> IF dimension = "worklevel" THEN "demographics"
                                       ELSE "demographics/entities",
                          granularity |-> granularity,
                          start |-> start, end |-> end, today |-> today,
                          entities |-> entities,
                          organization_id |-> organization_id, month_key |-> month_key]
           /\ IF scope.status = 404
              THEN /\ snapshot' = NoSnapshot
                   /\ rows' = <<>>
                   /\ response' = [status |-> 404, detail |-> "Dashboard month not found."]
              ELSE IF period.status = 400
              THEN /\ snapshot' = NoSnapshot
                   /\ rows' = <<>>
                   /\ response' = [status |-> 400, detail |-> "End date must be after start date."]
              ELSE /\ snapshot' = snap
                   /\ rows' = fetched
                   /\ response' =
                        IF dimension = "worklevel"
                        THEN DemographicsPayload(fetched, granularity, period,
                                                 scope.month_key)
                        ELSE EntityDemographicsPayload(fetched, granularity, period,
                                                       scope.month_key)
           /\ UNCHANGED store

DemographicsOverview(granularity, start, end, today, entities, organization_id, month_key) ==
    Demographics("worklevel", granularity, start, end, today, entities, organization_id,
                 month_key)

EntityDemographics(granularity, start, end, today, entities, organization_id, month_key) ==
    Demographics("entity", granularity, start, end, today, entities, organization_id,
                 month_key)

(***************************************************************************)
(* Fiscal windows of the attrition queries: params, year_bounds.           *)
(***************************************************************************)
\* the fiscal year taken to start in the calendar year of the cutoff
current_fy_start_CalendarYear(cutoff) == MakeDate(YearOf(cutoff), 4, 1)

\* params.current_fy_start
current_fy_start(cutoff) ==
    IF MonthOf(cutoff) >= 4
    THEN MakeDate(YearOf(cutoff), 4, 1)
    ELSE MakeDate(YearOf(cutoff) - 1, 4, 1)

\* PostgreSQL age(later, earlier) for later >= earlier: the field-wise difference,
\* borrowing the days of the earlier date's month and then twelve months
age(later, earlier) ==
    LET d0 == DayOf(later) - DayOf(earlier)
        m0 == MonthOf(later) - MonthOf(earlier)
        y0 == YearOf(later) - YearOf(earlier)
        d1 == IF d0 < 0 THEN d0 + _days_in_month(YearOf(earlier), MonthOf(earlier)) ELSE d0
        m1 == IF d0 < 0 THEN m0 - 1 ELSE m0
        m2 == IF m1 < 0 THEN m1 + 12 ELSE m1
        y1 == IF m1 < 0 THEN y0 - 1 ELSE y0
    IN [year |-> y1, month |-> m2, day |-> d1]

\* the whole months of the span only, trailing days dropped
months_covered_WholeOnly(year_start, year_end) ==
    Max(1, Min(12, age(year_end, year_start).year * 12 + age(year_end, year_start).month))

\* GREATEST(1, LEAST(12, (year * 12 + month + CASE WHEN day > 0 THEN 1 ELSE 0 END)::int))
months_covered(year_start, year_end) ==
    LET span == age(year_end, year_start)
    IN Max(1, Min(12, span.year * 12 + span.month + (IF span.day > 0 THEN 1 ELSE 0)))

\* one row of bounds for generate_series(-3, 0) AS offset
year_bound(cutoff, offset) ==
    LET fy == current_fy_start(cutoff)
        year_start == AddMonths(fy, 12 * offset)
        fy_year_end == AddMonths(fy, 12 * (offset + 1))
        year_end == Min(fy_year_end, AddDay(cutoff))
    IN [year_start |-> year_start,
        year_end |-> year_end,
        fy_year_end |-> fy_year_end,
        months_covered |-> months_covered(year_start, year_end)]

\* year_bounds, in the order of year_start
year_bounds(cutoff) == [i \in 1..4 |-> year_bound(cutoff, i - 4)]

\* TO_CHAR(date, 'YY')
ToCharYY(x) == ToString((YearOf(x) % 100) \div 10) \o ToString(YearOf(x) % 10)

\* CASE WHEN year_end < fy_year_end THEN 'YTD FY' || yy ELSE 'FY' || yy END
FiscalLabel(y) ==
    IF y.year_end < y.fy_year_end
    THEN "YTD FY" \o ToCharYY(y.fy_year_end)
    ELSE "FY" \o ToCharYY(y.fy_year_end)

\* month_series of one window: month_start for generate_series(0, months_covered - 1)
month_series(y) ==
    [i \in 1..Max(y.months_covered, 0) |-> AddMonths(y.year_start, i - 1)]

(***************************************************************************)
(* _build_attrition_sql (overall and per entity).                          *)
(***************************************************************************)
\* monthly_counts JOIN latest ed ON ...: counted in the month starting at month_start
MonthlyCounted(ed, month_start) ==
    /\ ed.DOJ # NullDate
    /\ ed.DOJ <= month_start
    /\ (ed.FinalLWD = NullDate \/ ed.FinalLWD >= AddMonths(month_start, 1))

\* a faulty variant: a join on year_start itself counts (ed."DOJ" <= y.year_start)
StartCondition_Inclusive(ed, y) ==
    /\ ed.DOJ # NullDate
    /\ ed.DOJ <= y.year_start
    /\ (ed.FinalLWD = NullDate \/ ed.FinalLWD >= y.year_start)

\* the FILTER of headcount_start
StartCondition(ed, y) ==
    /\ ed.DOJ # NullDate
    /\ ed.DOJ < y.year_start
    /\ (ed.FinalLWD = NullDate \/ ed.FinalLWD >= y.year_start)

\* a faulty variant: a join on year_end itself counts (ed."DOJ" <= y.year_end)
EndCondition_Inclusive(ed, y) ==
    /\ ed.DOJ # NullDate
    /\ ed.DOJ <= y.year_end
    /\ (ed.FinalLWD = NullDate \/ ed.FinalLWD >= y.year_end)

\* the FILTER of headcount_end
EndCondition(ed, y) ==
    /\ ed.DOJ # NullDate
    /\ ed.DOJ < y.year_end
    /\ (ed.FinalLWD = NullDate \/ ed.FinalLWD >= y.year_end)

\* the FILTER of exits
ExitCondition(ed, y) ==
    /\ ed.FinalLWD # NullDate
    /\ ed.FinalLWD >= y.year_start
    /\ ed.FinalLWD < y.year_end

\* COALESCE(ed."Entity", 'Unspecified')
entity_expr(ed) == IF ed.Entity = NULL THEN "Unspecified" ELSE ed.Entity

\* monthly_summary joined back: COALESCE(SUM(month_headcount), 0) over the months
\* of the window, for the rows of group
monthly_headcount_sum(y, group) ==
    LET months == month_series(y)
    IN SumSeq([i \in DOMAIN months |->
                  Cardinality({ed \in group : MonthlyCounted(ed, months[i])})])

\* one row of the final SELECT for window y and the rows of its group
AttritionRow(y, group) ==
    [label |-> FiscalLabel(y),
     headcount_start |-> Cardinality({ed \in group : StartCondition(ed, y)}),
     headcount_end |-> Cardinality({ed \in group : EndCondition(ed, y)}),
     exits |-> Cardinality({ed \in group : ExitCondition(ed, y)}),
     months_covered |-> y.months_covered,
     monthly_headcount_sum |-> monthly_headcount_sum(y, group)]

\* the rows of _build_attrition_sql(by_entity = False): FROM year_bounds y JOIN
\* latest ed ON TRUE gives a group, and a row, per window only if a row of latest
\* passes the entity filter
overall_attrition_sql(snap, cutoff, entity_filter) ==
    LET population == {ed \in snap.latest : EntityClause(ed, entity_filter)}
        bounds == year_bounds(cutoff)
    IN IF population = {} THEN <<>>
       ELSE [i \in DOMAIN bounds |-> AttritionRow(bounds[i], population)]

\* ORDER BY a.year_start, a.entity within the rows of by_entity = True
RECURSIVE FlattenSeq(_)
FlattenSeq(ss) == IF ss = <<>> THEN <<>> ELSE Head(ss) \o FlattenSeq(Tail(ss))

EntityBefore(a, b) == TextRank(a) < TextRank(b)

\* the rows of _build_attrition_sql(by_entity = True)
entity_attrition_sql(snap, cutoff, entity_filter) ==
    LET population == {ed \in snap.latest : EntityClause(ed, entity_filter)}
        bounds == year_bounds(cutoff)
        names == SortSeq(SetToSeq({entity_expr(ed) : ed \in population}), EntityBefore)
        group(name) == {ed \in population : entity_expr(ed) = name}
    IN FlattenSeq([i \in DOMAIN bounds |->
                      [j \in DOMAIN names |->
                          [entity |-> names[j]] @@ AttritionRow(bounds[i], group(names[j]))]])

(***************************************************************************)
(* _build_age_gender_sql.                                                  *)
(***************************************************************************)
\* COALESCE(ed."Age", 0) >= lower AND COALESCE(ed."Age", 0) < upper; the band
\* of fifty has no upper limit
AgeBand(ed, lower, upper) ==
    LET years == IF ed.Age = NoInt THEN 0 ELSE ed.Age
    IN years >= lower /\ (upper = NoInt \/ years < upper)

\* start_, end_, exits_ and monthly_ columns of one band or gender of the row
AgeGenderColumns(key, y, group) ==
    ("start_" \o key :> Cardinality({ed \in group : StartCondition(ed, y)}))
    @@ ("end_" \o key :> Cardinality({ed \in group : EndCondition(ed, y)}))
    @@ ("exits_" \o key :> Cardinality({ed \in group : ExitCondition(ed, y)}))
    @@ ("monthly_" \o key \o "_sum" :> monthly_headcount_sum(y, group))

\* the rows of _build_age_gender_sql: one per window if a row of latest passes
\* the entity filter
age_gender_sql(snap, cutoff, entity_filter) ==
    LET population == {ed \in snap.latest : EntityClause(ed, entity_filter)}
        bounds == year_bounds(cutoff)
        band(lower, upper) == {ed \in population : AgeBand(ed, lower, upper)}
        gender(letter) == {ed \in population : GenderLike(ed, letter)}
    IN IF population = {} THEN <<>>
       ELSE [i \in DOMAIN bounds |->
               [label |-> FiscalLabel(bounds[i]),
                months_covered |-> bounds[i].months_covered]
               @@ AgeGenderColumns("twenty", bounds[i], band(20, 30))
               @@ AgeGenderColumns("thirty", bounds[i], band(30, 40))
               @@ AgeGenderColumns("forty", bounds[i], band(40, 50))
               @@ AgeGenderColumns("fifty", bounds[i], band(50, NoInt))
               @@ AgeGenderColumns("male", bounds[i], gender("M"))
               @@ AgeGenderColumns("female", bounds[i], gender("F"))]

(***************************************************************************)
(* _build_tenure_sql.                                                      *)
(***************************************************************************)
\* a faulty variant: the months are not floored at 0 (no GREATEST(..., 0))
tenure_months_expr_NoFloor(ref, doj) ==
    (YearOf(ref) - YearOf(doj)) * 12 + (MonthOf(ref) - MonthOf(doj))
       + (IF DayOf(ref) >= DayOf(doj) THEN 0 ELSE -1)

\* tenure_months_expr(ref) for a row with a DOJ
tenure_months_expr(ref, doj) ==
    Max((YearOf(ref) - YearOf(doj)) * 12 + (MonthOf(ref) - MonthOf(doj))
          + (IF DayOf(ref) >= DayOf(doj) THEN 0 ELSE -1), 0)

\* AND expr >= lower AND expr < upper; with a NULL DOJ the expression is NULL
\* and the clause does not hold
TenureBucket(ed, ref, lower, upper) ==
    /\ ed.DOJ # NullDate
    /\ tenure_months_expr(ref, ed.DOJ) >= lower
    /\ (upper = NoInt \/ tenure_months_expr(ref, ed.DOJ) < upper)

\* monthly_condition of the tenure query, at the last day of the month
TenureMonthlyCondition(ed, month_end) ==
    /\ ed.DOJ # NullDate
    /\ ed.DOJ <= month_end
    /\ (ed.FinalLWD = NullDate \/ ed.FinalLWD > month_end)

\* buckets
TenureBuckets ==
    << [key |-> "zero_six", lower |-> 0, upper |-> 6],
       [key |-> "six_twelve", lower |-> 6, upper |-> 12],
       [key |-> "one_two", lower |-> 12, upper |-> 24],
       [key |-> "two_four", lower |-> 24, upper |-> 48],
       [key |-> "four_ten", lower |-> 48, upper |-> 120],
       [key |-> "ten_plus", lower |-> 120, upper |-> NoInt] >>

\* COALESCE(SUM(month_<key>), 0) over the months of the window
monthly_tenure_sum(y, population, b) ==
    LET months == month_series(y)
        month_end(i) == SubDay(AddMonths(y.year_start, i))
    IN SumSeq([i \in DOMAIN months |->
                  Cardinality({ed \in population :
                                  /\ TenureMonthlyCondition(ed, month_end(i))
                                  /\ TenureBucket(ed, month_end(i), b.lower, b.upper)})])

\* start_, end_, exits_ and monthly_ columns of one tenure bucket of the row
TenureColumns(b, y, population) ==
    ("start_" \o b.key :>
        Cardinality({ed \in population :
            StartCondition(ed, y) /\ TenureBucket(ed, y.year_start, b.lower, b.upper)}))
    @@ ("end_" \o b.key :>
        Cardinality({ed \in population :
            EndCondition(ed, y) /\ TenureBucket(ed, y.year_end, b.lower, b.upper)}))
    @@ ("exits_" \o b.key :>
        Cardinality({ed \in population :
            ExitCondition(ed, y) /\ TenureBucket(ed, ed.FinalLWD, b.lower, b.upper)}))
    @@ ("monthly_" \o b.key \o "_sum" :> monthly_tenure_sum(y, population, b))

RECURSIVE TenureRowColumns(_, _, _)
TenureRowColumns(k, y, population) ==
    IF k = 0 THEN <<>>
    ELSE TenureColumns(TenureBuckets[k], y, population)
           @@ TenureRowColumns(k - 1, y, population)

\* the rows of _build_tenure_sql
tenure_sql(snap, cutoff, entity_filter) ==
    LET population == {ed \in snap.latest : EntityClause(ed, entity_filter)}
        bounds == year_bounds(cutoff)
    IN IF population = {} THEN <<>>
       ELSE [i \in DOMAIN bounds |->
               [label |-> FiscalLabel(bounds[i]),
                months_covered |-> bounds[i].months_covered]
               @@ TenureRowColumns(Len(TenureBuckets), bounds[i], population)]

(***************************************************************************)
(* attrition_overview: the rates computed from the fetched rows.           *)
(***************************************************************************)
\* row.get(key): None for a key the row does not have
Get(row, key) == IF key \in DOMAIN row THEN row[key] ELSE NoInt

\* row.get(key) or 0
GetOrZero(row, key) == IF Get(row, key) = NoInt THEN 0 ELSE Get(row, key)

_months_covered(row) ==
    LET raw_months == Get(row, "months_covered")
    IN IF raw_months = NoInt THEN 12
       ELSE IF raw_months <= 0 THEN 12
       ELSE Min(raw_months, 12)

\* the denominator without the monthly average, for every row
_average_headcount_BaseOnly(row, start_key, end_key, monthly_sum_key) ==
    Frac(GetOrZero(row, start_key) + GetOrZero(row, end_key), 2)

_average_headcount(row, start_key, end_key, monthly_sum_key) ==
    LET start == GetOrZero(row, start_key)
        end == GetOrZero(row, end_key)
        base_avg == Frac(start + end, 2)
        months == _months_covered(row)
        monthly_sum == Get(row, monthly_sum_key)
        monthly_value == IF monthly_sum = NoInt THEN 0 ELSE monthly_sum
    IN IF monthly_sum_key # NULL /\ monthly_value > 0 /\ months > 0
       THEN Frac(monthly_value, months)
       ELSE base_avg

\* the rate with the division left unguarded
_attrition_Unguarded(row, start_key, end_key, exit_key, monthly_sum_key) ==
    PyDiv(Frac(GetOrZero(row, exit_key), 1),
          _average_headcount(row, start_key, end_key, monthly_sum_key))

_attrition(row, start_key, end_key, exit_key, monthly_sum_key) ==
    LET exits == GetOrZero(row, exit_key)
        denom == _average_headcount(row, start_key, end_key, monthly_sum_key)
    IN IF ~FracIsZero(denom) THEN PyDiv(Frac(exits, 1), denom) ELSE Zero

\* the rate of the covered months, not scaled to a year
_annualized_attrition_Unscaled(row, start_key, end_key, exit_key, monthly_sum_key) ==
    _attrition(row, start_key, end_key, exit_key, monthly_sum_key)

_annualized_attrition(row, start_key, end_key, exit_key, monthly_sum_key) ==
    LET rate == _attrition(row, start_key, end_key, exit_key, monthly_sum_key)
        months == _months_covered(row)
    IN IF months >= 12 THEN rate
       ELSE FracMul(rate, PyDiv(Frac(12, 1), Frac(months, 1)))

\* _annualized_attrition(row, "start_<key>", "end_<key>", "exits_<key>", "monthly_<key>_sum")
BucketPct(row, key) ==
    _annualized_attrition(row, "start_" \o key, "end_" \o key, "exits_" \o key,
                          "monthly_" \o key \o "_sum")

\* SelectSeq over rows with row["entity"] is not None
RECURSIVE EntityRowsWithEntity(_)
EntityRowsWithEntity(entity_rows) ==
    IF entity_rows = <<>> THEN <<>>
    ELSE (IF Head(entity_rows).entity # NULL THEN <<Head(entity_rows)>> ELSE <<>>)
           \o EntityRowsWithEntity(Tail(entity_rows))

\* the payload attrition_overview builds from the four fetched row lists
AttritionPayload(fetched, resolved_month_key) ==
    LET listed == EntityRowsWithEntity(fetched.entity_rows)
    IN [status |-> 200,
        overall |->
           [i \in DOMAIN fetched.overall_rows |->
               [label |-> fetched.overall_rows[i].label,
                attritionPct |->
                   _annualized_attrition(fetched.overall_rows[i], "headcount_start",
                       "headcount_end", "exits", "monthly_headcount_sum")]],
        entities |->
           [i \in DOMAIN listed |->
               [entity |-> listed[i].entity,
                label |-> listed[i].label,
                attritionPct |->
                   _annualized_attrition(listed[i], "headcount_start",
                       "headcount_end", "exits", "monthly_headcount_sum")]],
        ageTrend |->
           [i \in DOMAIN fetched.age_gender_rows |->
               [label |-> fetched.age_gender_rows[i].label,
                twentyPct |-> BucketPct(fetched.age_gender_rows[i], "twenty"),
                thirtyPct |-> BucketPct(fetched.age_gender_rows[i], "thirty"),
                fortyPct |-> BucketPct(fetched.age_gender_rows[i], "forty"),
                fiftyPct |-> BucketPct(fetched.age_gender_rows[i], "fifty")]],
        genderTrend |->
           [i \in DOMAIN fetched.age_gender_rows |->
               [label |-> fetched.age_gender_rows[i].label,
                malePct |-> BucketPct(fetched.age_gender_rows[i], "male"),
                femalePct |-> BucketPct(fetched.age_gender_rows[i], "female")]],
        tenureTrend |->
           [i \in DOMAIN fetched.tenure_rows |->
               [label |-> fetched.tenure_rows[i].label,
                zeroSixPct |-> BucketPct(fetched.tenure_rows[i], "zero_six"),
                sixTwelvePct |-> BucketPct(fetched.tenure_rows[i], "six_twelve"),
                oneTwoPct |-> BucketPct(fetched.tenure_rows[i], "one_two"),
                twoFourPct |-> BucketPct(fetched.tenure_rows[i], "two_four"),
                fourTenPct |-> BucketPct(fetched.tenure_rows[i], "four_ten"),
                tenPlusPct |-> BucketPct(fetched.tenure_rows[i], "ten_plus")]],
        monthKey |-> resolved_month_key]

\* GET /analytics/attrition
AttritionOverview(entities, organization_id, month_key, granularity, start, end, today) ==
    \E scope \in _resolve_org_month_scope(organization_id, month_key) :
      \E period \in {_resolve_period(granularity, start, end, today)},
         snap \in {SnapshotOf(scope.org_id, scope.dashboard_month_id)} :
      \E fetched \in
            {IF scope.status = 404 \/ period.status = 400 THEN <<>>
             ELSE [overall_rows |->
                      overall_attrition_sql(snap, period.end, EntityFilter(entities)),
                   entity_rows |->
                      entity_attrition_sql(snap, period.end, EntityFilter(entities)),
                   age_gender_rows |->
                      age_gender_sql(snap, period.end, EntityFilter(entities)),
                   tenure_rows |->
                      tenure_sql(snap, period.end, EntityFilter(entities))]} :
           /\ request' = [endpoint |-> "attrition", granularity |-> granularity,
                          start |-> start, end |-> end, today |-> today,
                          entities |-> entities,
                          organization_id |-> organization_id, month_key |-> month_key]
           /\ IF scope.status = 404
              THEN /\ snapshot' = NoSnapshot
                   /\ rows' = <<>>
                   /\ response' = [status |-> 404, detail |-> "Dashboard month not found."]
              ELSE IF period.status = 400
              THEN /\ snapshot' = NoSnapshot
                   /\ rows' = <<>>
                   /\ response' = [status |-> 400, detail |-> "End date must be after start date."]
              ELSE /\ snapshot' = snap
                   /\ rows' = fetched
                   /\ response' = AttritionPayload(fetched, scope.month_key)
           /\ UNCHANGED store

(***************************************************************************)
(* Specification SpecSnapshot: stores that differ in the identity keys and *)
(* the uploads of their rows, queried under every scope.                   *)
(***************************************************************************)
Today == MakeDate(2024, 7, 10)

SnapshotMonths ==
    {[id |-> "m1", monthKey |-> "2024-06"], [id |-> "m2", monthKey |-> "2024-07"]}

\* two uploads of one month, two uploads at the same instant, a second organization
SnapshotUploads ==
    <<[organizationId |-> "o1", dashboardMonthId |-> "m1", uploadedAt |-> 1],
      [organizationId |-> "o1", dashboardMonthId |-> "m2", uploadedAt |-> 2],
      [organizationId |-> "o1", dashboardMonthId |-> "m1", uploadedAt |-> 2],
      [organizationId |-> "o2", dashboardMonthId |-> "m1", uploadedAt |-> 3]>>

SnapshotChoices ==
    [uploadId : DOMAIN SnapshotUploads, NewEmpID : {NULL, "E1"}, EmpID : {NULL, "E1", "1"}]

InitSnapshot ==
    /\ Upload = SnapshotUploads
    /\ DashboardMonth = SnapshotMonths
    /\ \E n \in 0..MaxRecords : \E f \in [1..n -> SnapshotChoices] :
          employee_dashboard_master =
             {Record(i, f[i].uploadId, f[i].NewEmpID, f[i].EmpID,
                     MakeDate(2020, 1, 1), NullDate, "E1", "L1", "F", 1, "Pune", 30, 4) : i \in 1..n}
    /\ NoAccounts
    /\ request = NoRequest
    /\ snapshot = NoSnapshot
    /\ rows = <<>>
    /\ response = NoResponse

\* one request per behaviour: the queries leave the store as it is, so a second
\* request would only be served from the same store again
NextSnapshot ==
    /\ request = NoRequest
    /\ \E organization_id \in {NULL, "o1", "o2"}, month_key \in {NULL, "2024-06", "2024-07", "2024-13"} :
          LocationHeadcount("physical", NullDate, Today, {}, organization_id, month_key)

SpecSnapshot == InitSnapshot /\ [][NextSnapshot]_vars

\* the rows a query of the resolved scope ranges over, stated on the tables
RecordsInScope ==
    {ed \in employee_dashboard_master :
        /\ snapshot.organization_id # NULL =>
              Upload[ed.uploadId].organizationId = snapshot.organization_id
        /\ snapshot.dashboard_month_id # NULL =>
              Upload[ed.uploadId].dashboardMonthId = snapshot.dashboard_month_id}

\* C1: among the in-scope records that share a resolved identity key, latest(scope)
\* holds exactly one, the one of the upload with the greatest uploaded_at, ties
\* broken by the greatest record id.
C1_LatestKeepsNewest ==
    response.status = 200 =>
        \A ed \in RecordsInScope :
            LET same == {o \in RecordsInScope : IdentityKey(o) = IdentityKey(ed)}
                kept == snapshot.latest \cap same
            IN /\ Cardinality(kept) = 1
               /\ \A k \in kept : \A o \in same \ {k} :
                     \/ Upload[o.uploadId].uploadedAt < Upload[k.uploadId].uploadedAt
                     \/ /\ Upload[o.uploadId].uploadedAt = Upload[k.uploadId].uploadedAt
                        /\ o.id < k.id

\* C1 witness: a query under an organization and a month filter met two in-scope
\* records of one identity and kept the one of the later upload although its
\* record id is the lower one
C1_Witness ==
    /\ response.status = 200
    /\ snapshot.organization_id # NULL
    /\ snapshot.dashboard_month_id # NULL
    /\ \E a \in snapshot.latest, b \in RecordsInScope :
          /\ a.id < b.id
          /\ IdentityKey(a) = IdentityKey(b)
          /\ Upload[a.uploadId].uploadedAt > Upload[b.uploadId].uploadedAt

\* C18: a request whose month_key is not YYYY-MM with a month in 1..12 (as
\* "2024-13") fails with status 400, and a request with a well-formed key does
\* not fail on the key.
C18_MonthKeyParsing ==
    (request.endpoint = "location-headcount" /\ request.month_key # NULL) =>
        IF _month_range_from_key(request.month_key).status = 400
        THEN response.status = 400
        ELSE response.status = 200

(***************************************************************************)
(* Specification SpecHeadcount: one organization, one upload, records of   *)
(* distinct identities that differ in DOJ and Final LWD; the manpower      *)
(* series and the point-in-time headcount are queried over them.           *)
(***************************************************************************)
HeadcountToday == MakeDate(2023, 7, 10)

HeadcountUploads ==
    <<[organizationId |-> "o1", dashboardMonthId |-> "m1", uploadedAt |-> 1]>>

DojChoices == {NullDate, MakeDate(2023, 1, 1), MakeDate(2023, 2, 15)}
LwdChoices == {NullDate, MakeDate(2023, 1, 31), MakeDate(2023, 3, 1), MakeDate(2023, 6, 15)}

\* start / end of a request: absent, a bucket start, a day inside a bucket
RangeChoices == {NullDate, MakeDate(2023, 1, 1), MakeDate(2023, 3, 1), MakeDate(2023, 6, 15)}

CutoffChoices ==
    {NullDate, MakeDate(2022, 12, 31), MakeDate(2023, 1, 1), MakeDate(2023, 3, 1),
     MakeDate(2023, 6, 15), MakeDate(2023, 6, 16)}

Granularities == {"monthly", "quarterly", "yearly"}

InitHeadcount ==
    /\ Upload = HeadcountUploads
    /\ DashboardMonth = SnapshotMonths
    /\ \E n \in 0..MaxRecords : \E f \in [1..n -> [DOJ : DojChoices, FinalLWD : LwdChoices]] :
          employee_dashboard_master =
             {Record(i, 1, NULL, NULL, f[i].DOJ, f[i].FinalLWD, "E1", "L1", "F", 1, "Pune", 30, 4) :
                 i \in 1..n}
    /\ NoAccounts
    /\ request = NoRequest
    /\ snapshot = NoSnapshot
    /\ rows = <<>>
    /\ response = NoResponse

HeadcountManpower ==
    \E granularity \in Granularities, start \in RangeChoices, end \in RangeChoices :
        ManpowerRampup(granularity, start, end, HeadcountToday, {}, "o1", NULL)

HeadcountLocation ==
    \E cutoff \in CutoffChoices :
        LocationHeadcount("physical", cutoff, HeadcountToday, {}, "o1", NULL)

NextHeadcount ==
    /\ request = NoRequest
    /\ (HeadcountManpower \/ HeadcountLocation)

SpecHeadcount == InitHeadcount /\ [][NextHeadcount]_vars

\* the width in months of a bucket of the requested granularity
BucketMonths ==
    CASE request.granularity = "monthly" -> 1
      [] request.granularity = "quarterly" -> 3
      [] request.granularity = "yearly" -> 12

IsManpowerResponse == request.endpoint = "manpower-rampup" /\ response.status = 200
IsLocationResponse == request.endpoint = "location-headcount" /\ response.status = 200

\* the store holds one identity, with a join date and a last working day not before it
SingleExited ==
    /\ Cardinality(employee_dashboard_master) = 1
    /\ \A ed \in employee_dashboard_master :
          ed.DOJ # NullDate /\ ed.FinalLWD # NullDate /\ ed.DOJ <= ed.FinalLWD

\* C2 as stated: with one identity (DOJ <= LWD) the headcount at T is 1 for
\* DOJ <= T <= LWD and 0 for T > LWD, both at a bucket start T of the manpower
\* series and at a cutoff T of the point-in-time headcount.
C2_ExitAccountingAsStated ==
    SingleExited =>
        \A ed \in employee_dashboard_master :
            /\ IsManpowerResponse =>
                  \A i \in DOMAIN response.points :
                      LET T == response.points[i].periodStart
                      IN /\ (ed.DOJ <= T /\ T <= ed.FinalLWD) => response.points[i].headcount = 1
                         /\ T > ed.FinalLWD => response.points[i].headcount = 0
            /\ IsLocationResponse =>
                  LET T == response.cutoff
                  IN /\ (ed.DOJ <= T /\ T <= ed.FinalLWD) => response.total = 1
                     /\ T > ed.FinalLWD => response.total = 0

\* C2 amended: with one identity (DOJ <= LWD) the headcount is 0 for every T > LWD;
\* the manpower series reports 1 at bucket start T exactly when DOJ <= T and the
\* bucket ends on or before LWD (T + W <= LWD); the point-in-time headcount at
\* cutoff T is 1 exactly when DOJ <= T < LWD.
C2_ExitAccounting ==
    SingleExited =>
        \A ed \in employee_dashboard_master :
            /\ IsManpowerResponse =>
                  \A i \in DOMAIN response.points :
                      LET T == response.points[i].periodStart
                          survived == ed.DOJ <= T /\ AddMonths(T, BucketMonths) <= ed.FinalLWD
                      IN /\ response.points[i].headcount = IF survived THEN 1 ELSE 0
                         /\ T > ed.FinalLWD => response.points[i].headcount = 0
            /\ IsLocationResponse =>
                  LET T == response.cutoff
                  IN /\ response.total = IF ed.DOJ <= T /\ T < ed.FinalLWD THEN 1 ELSE 0
                     /\ T > ed.FinalLWD => response.total = 0

\* C2 witness: a manpower point whose bucket starts on or before the last working
\* day of the only identity but does not end by it, reported with headcount 0
C2_Witness ==
    /\ SingleExited
    /\ IsManpowerResponse
    /\ \E ed \in employee_dashboard_master : \E i \in DOMAIN response.points :
          /\ ed.DOJ <= response.points[i].periodStart
          /\ response.points[i].periodStart <= ed.FinalLWD
          /\ response.points[i].headcount = 0
    /\ \E i \in DOMAIN response.points : response.points[i].headcount = 1

\* the identities of latest(scope) that survive the whole bucket [T, T + W)
SurvivedBucket(T) ==
    {ed \in snapshot.latest :
        /\ ed.DOJ # NullDate
        /\ ed.DOJ <= T
        /\ (ed.FinalLWD = NullDate \/ ed.FinalLWD >= AddMonths(T, BucketMonths))}

\* C3: the headcount of the bucket [T, T + W) counts exactly the identities of
\* latest(scope) with DOJ non-null, DOJ <= T and LWD null or LWD >= T + W; an identity
\* with null LWD is in every bucket with T >= DOJ and in none with T < DOJ.
C3_BucketCloseRule ==
    IsManpowerResponse =>
        \A i \in DOMAIN response.points :
            LET T == response.points[i].periodStart
            IN /\ response.points[i].headcount = Cardinality(SurvivedBucket(T))
               /\ \A ed \in snapshot.latest :
                     (ed.DOJ # NullDate /\ ed.FinalLWD = NullDate) =>
                        (ed \in SurvivedBucket(T) <=> T >= ed.DOJ)
               /\ \A ed \in snapshot.latest : ed.DOJ = NullDate => ed \notin SurvivedBucket(T)

\* C3 witness: a bucket that an identity joined before and left in (it is still
\* employed at T but not counted), next to an identity that is counted
C3_Witness ==
    /\ IsManpowerResponse
    /\ \E i \in DOMAIN response.points : \E a, b \in snapshot.latest :
          LET T == response.points[i].periodStart
          IN /\ a.DOJ # NullDate /\ a.DOJ <= T
             /\ a.FinalLWD >= T /\ a.FinalLWD < AddMonths(T, BucketMonths)
             /\ b.DOJ # NullDate /\ b.FinalLWD = NullDate /\ b.DOJ <= T
             /\ response.points[i].headcount = 1

\* the month number of a date, counted from year 0
MonthIndex(x) == YearOf(x) * 12 + MonthOf(x) - 1

\* T is the start of the bucket of the requested granularity that holds day x
IsBucketOf(T, x) ==
    /\ DayOf(T) = 1
    /\ MonthIndex(T) % BucketMonths = 0
    /\ MonthIndex(T) <= MonthIndex(x)
    /\ MonthIndex(x) < MonthIndex(T) + BucketMonths

\* the points are one per bucket from the bucket of start through the bucket of end,
\* ascending, each reporting the headcount of the bucket before it as opening
\* headcount and the difference as ramp change
SeriesShape ==
    LET points == response.points
    IN /\ Len(points) >= 1
       /\ IsBucketOf(points[1].periodStart, response.start)
       /\ IsBucketOf(points[Len(points)].periodStart, response.end)
       /\ \A i \in 1..(Len(points) - 1) :
             MonthIndex(points[i + 1].periodStart) =
                MonthIndex(points[i].periodStart) + BucketMonths
       /\ \A i \in DOMAIN points :
             /\ points[i].openingHeadcount =
                   Cardinality(SurvivedBucket(AddMonths(points[i].periodStart, -BucketMonths)))
             /\ i > 1 => points[i].openingHeadcount = points[i - 1].headcount
             /\ points[i].rampChange = points[i].headcount - points[i].openingHeadcount

\* every point reports the one employee as present at its opening and its close
AllOnes ==
    \A i \in DOMAIN response.points :
        /\ response.points[i].headcount = 1
        /\ response.points[i].openingHeadcount = 1
        /\ response.points[i].rampChange = 0

\* one employee, still employed
SingleEmployed ==
    /\ Cardinality(employee_dashboard_master) = 1
    /\ \A ed \in employee_dashboard_master : ed.DOJ # NullDate /\ ed.FinalLWD = NullDate

\* C4 as stated: one point per bucket from floor(start) through floor(end), each with
\* the preceding bucket's headcount as opening headcount; hence one employee with
\* DOJ before the window and no LWD gives 1, 1, 0 at every returned point.
C4_SeriesAsStated ==
    IsManpowerResponse =>
        /\ SeriesShape
        /\ (SingleEmployed /\ \A ed \in employee_dashboard_master :
                                 ed.DOJ < response.points[1].periodStart) => AllOnes

\* C4 amended: the same series shape; one employee with no LWD gives 1, 1, 0 at every
\* returned point when the DOJ is on or before the start of the pre-window bucket
\* (floor(start) - W), and an opening headcount of 0 at the first point when the DOJ
\* lies later in the pre-window bucket.
C4_Series ==
    IsManpowerResponse =>
        /\ SeriesShape
        /\ SingleEmployed =>
              \A ed \in employee_dashboard_master :
                  LET first == response.points[1].periodStart
                      pre == AddMonths(first, -BucketMonths)
                  IN /\ ed.DOJ <= pre => AllOnes
                     /\ (pre < ed.DOJ /\ ed.DOJ <= first) =>
                           /\ response.points[1].headcount = 1
                           /\ response.points[1].openingHeadcount = 0
                           /\ response.points[1].rampChange = 1

\* C4 witness: a series of at least three points for one employee who joined before
\* the pre-window bucket, so that the first returned point opens with 1
C4_Witness ==
    /\ IsManpowerResponse
    /\ SingleEmployed
    /\ Len(response.points) >= 3
    /\ request.start # NullDate
    /\ AllOnes

\* C17: when start and end are both supplied, the period of the request is
\* exactly (start, end), neither floored nor defaulted, and the request fails
\* with status 400 exactly when end < start; start = end is served.
C17_ExplicitRange ==
    (request.endpoint = "manpower-rampup"
        /\ request.start # NullDate /\ request.end # NullDate) =>
        /\ response.status = (IF request.end < request.start THEN 400 ELSE 200)
        /\ response.status = 200 =>
              /\ response.start = request.start
              /\ response.end = request.end

\* C17 witness: a quarterly request for the single day 2023-06-15 is served
\* with that day as start and end
C17_Witness ==
    /\ IsManpowerResponse
    /\ request.granularity = "quarterly"
    /\ request.start = MakeDate(2023, 6, 15)
    /\ request.end = MakeDate(2023, 6, 15)
    /\ response.start = MakeDate(2023, 6, 15)
    /\ response.end = MakeDate(2023, 6, 15)

(***************************************************************************)
(* Specification SpecRate: the rates of attrition_overview as a function   *)
(* of the fetched rows.  Init draws the rows, the action builds the        *)
(* payload from them.                                                      *)
(***************************************************************************)
\* a measure of the payload: the list it is fetched in, the list and the field
\* of the payload that report it, and its columns (lines 1842-1922)
Measure(list, out, field, start_key, end_key, exit_key, monthly_sum_key) ==
    [list |-> list, out |-> out, field |-> field, start_key |-> start_key,
     end_key |-> end_key, exit_key |-> exit_key, monthly_sum_key |-> monthly_sum_key]

BucketMeasure(list, out, field, key) ==
    Measure(list, out, field, "start_" \o key, "end_" \o key, "exits_" \o key,
            "monthly_" \o key \o "_sum")

Measures ==
    << Measure("overall_rows", "overall", "attritionPct", "headcount_start",
               "headcount_end", "exits", "monthly_headcount_sum"),
       Measure("entity_rows", "entities", "attritionPct", "headcount_start",
               "headcount_end", "exits", "monthly_headcount_sum"),
       BucketMeasure("age_gender_rows", "ageTrend", "twentyPct", "twenty"),
       BucketMeasure("age_gender_rows", "ageTrend", "thirtyPct", "thirty"),
       BucketMeasure("age_gender_rows", "ageTrend", "fortyPct", "forty"),
       BucketMeasure("age_gender_rows", "ageTrend", "fiftyPct", "fifty"),
       BucketMeasure("age_gender_rows", "genderTrend", "malePct", "male"),
       BucketMeasure("age_gender_rows", "genderTrend", "femalePct", "female"),
       BucketMeasure("tenure_rows", "tenureTrend", "zeroSixPct", "zero_six"),
       BucketMeasure("tenure_rows", "tenureTrend", "sixTwelvePct", "six_twelve"),
       BucketMeasure("tenure_rows", "tenureTrend", "oneTwoPct", "one_two"),
       BucketMeasure("tenure_rows", "tenureTrend", "twoFourPct", "two_four"),
       BucketMeasure("tenure_rows", "tenureTrend", "fourTenPct", "four_ten"),
       BucketMeasure("tenure_rows", "tenureTrend", "tenPlusPct", "ten_plus") >>

\* the four columns of a measure holding the counts v
MeasureColumns(m, v) ==
    (m.start_key :> v.start) @@ (m.end_key :> v.end) @@ (m.exit_key :> v.exits)
    @@ (m.monthly_sum_key :> v.monthly_sum)

NoCounts == [start |-> 0, end |-> 0, exits |-> 0, monthly_sum |-> 0]

\* the columns of every measure of a list, holding v for the measure focus and
\* no counts for the others
RECURSIVE ListColumns(_, _, _, _)
ListColumns(k, list, focus, v) ==
    IF k = 0 THEN [key \in {} |-> 0]
    ELSE (IF Measures[k].list # list THEN [key \in {} |-> 0]
          ELSE MeasureColumns(Measures[k], IF k = focus THEN v ELSE NoCounts))
         @@ ListColumns(k - 1, list, focus, v)

\* one fetched row of a list; months_covered is left out of the row when
\* has_months is FALSE
FetchedRow(list, focus, v, has_months, months) ==
    [label |-> "FY24"]
    @@ (IF list = "entity_rows" THEN [entity |-> "E1"] ELSE [key \in {} |-> 0])
    @@ (IF has_months THEN [months_covered |-> months] ELSE [key \in {} |-> 0])
    @@ ListColumns(Len(Measures), list, focus, v)

\* counts and months the rows are drawn from: small counts, and those of
\* six months, three exits and an average headcount of ten
CountChoices == 0..MaxCount \cup {10}
ExitChoices == 0..MaxCount \cup {3}
MonthlySumChoices == 0..MaxCount \cup {60}
MonthsChoices == {NoInt, -2, 0, 1, 6, 12, 13}

InitRate ==
    /\ Upload = <<>>
    /\ DashboardMonth = <<>>
    /\ employee_dashboard_master = {}
    /\ NoAccounts
    /\ request = NoRequest
    /\ snapshot = NoSnapshot
    /\ response = NoResponse
    /\ \E focus \in DOMAIN Measures, has_months \in BOOLEAN, months \in MonthsChoices,
          v \in [start : CountChoices, end : CountChoices, exits : ExitChoices,
                 monthly_sum : MonthlySumChoices] :
          /\ (~has_months => months = NoInt)
          /\ rows = [list \in {"overall_rows", "entity_rows", "age_gender_rows",
                                "tenure_rows"} |->
                        <<FetchedRow(list, focus, v, has_months, months)>>]

\* lines 1775-1930 of attrition_overview on the fetched rows
AttritionRates ==
    /\ request = NoRequest
    /\ request' = [endpoint |-> "attrition"]
    /\ response' = AttritionPayload(rows, NULL)
    /\ UNCHANGED <<store, snapshot, rows>>

NextRate == AttritionRates

SpecRate == InitRate /\ [][NextRate]_vars

\* the row a measure is computed from and the rate the payload reports for it
RowOf(m) == rows[m.list][1]
ReportedPct(m) == response[m.out][1][m.field]
IsRatesResponse == request.endpoint = "attrition" /\ response.status = 200

\* months_covered as the rates read it: twelve when the row has none or a
\* non-positive one
MonthsRead(row) ==
    IF "months_covered" \notin DOMAIN row THEN 12
    ELSE IF row.months_covered = NoInt \/ row.months_covered <= 0 THEN 12
    ELSE row.months_covered

\* exits / denominator, 0 for a zero denominator
RawRate(exits, denominator) ==
    IF denominator.num = 0 THEN Zero
    ELSE Frac(exits * denominator.den, denominator.num)

\* C5: every reported attrition rate is the raw rate exits / denominator when
\* months_covered >= 12, and the raw rate * 12 / months_covered when
\* 1 <= months_covered < 12; a missing or non-positive months_covered counts as 12.
C5_Annualization ==
    IsRatesResponse =>
        \A k \in DOMAIN Measures :
            LET m == Measures[k]
                row == RowOf(m)
                months == MonthsRead(row)
                raw == RawRate(row[m.exit_key],
                               _average_headcount(row, m.start_key, m.end_key,
                                                  m.monthly_sum_key))
            IN ReportedPct(m) = IF months >= 12 THEN raw
                                ELSE Frac(raw.num * 12, raw.den * months)

\* a rate of six months, three exits and a denominator of ten is reported as 0.6
C5_Witness ==
    /\ IsRatesResponse
    /\ \E k \in DOMAIN Measures :
          LET m == Measures[k]
              row == RowOf(m)
          IN /\ "months_covered" \in DOMAIN row
             /\ row.months_covered = 6
             /\ row[m.exit_key] = 3
             /\ _average_headcount(row, m.start_key, m.end_key, m.monthly_sum_key)
                  = Frac(10, 1)
             /\ ReportedPct(m) = Frac(6, 10)

\* the denominator of the selection rule for a row: the monthly sum over the
\* months (months_covered as the rates read it, at most twelve) when the sum
\* and the months are positive, else the mean of start and end headcount
SelectedDenominator(row, m) ==
    IF row[m.monthly_sum_key] > 0 /\ MonthsRead(row) > 0
    THEN Frac(row[m.monthly_sum_key], Min(MonthsRead(row), 12))
    ELSE Frac(row[m.start_key] + row[m.end_key], 2)

\* C6: for every attrition row of every family (overall, entity, age, gender,
\* tenure) the denominator is monthly_sum / months_covered when the monthly sum
\* is positive, else (headcount_start + headcount_end) / 2, and the reported
\* rate is the annualized exits over that denominator.
C6_DenominatorSelection ==
    IsRatesResponse =>
        \A k \in DOMAIN Measures :
            LET m == Measures[k]
                row == RowOf(m)
                denominator == SelectedDenominator(row, m)
                raw == RawRate(row[m.exit_key], denominator)
            IN /\ _average_headcount(row, m.start_key, m.end_key, m.monthly_sum_key)
                    = denominator
               /\ ReportedPct(m) =
                    IF MonthsRead(row) >= 12 THEN raw
                    ELSE Frac(raw.num * 12, raw.den * MonthsRead(row))

\* a tenure row whose monthly sum selects the monthly average, sixty over six
\* months, although start and end headcount would give another denominator
C6_Witness ==
    /\ IsRatesResponse
    /\ LET m == Measures[9]
           row == RowOf(m)
       IN /\ "months_covered" \in DOMAIN row
          /\ row.months_covered = 6
          /\ row[m.monthly_sum_key] = 60
          /\ row[m.start_key] = 1 /\ row[m.end_key] = 2 /\ row[m.exit_key] = 3
          /\ ReportedPct(m) = Frac(6, 10)

(***************************************************************************)
(* Specification SpecFiscal: GET /analytics/attrition for every cutoff of  *)
(* seventeen months, across a leap day and two fiscal year ends.           *)
(***************************************************************************)
FiscalToday == MakeDate(2023, 1, 15)
FirstCutoff == MakeDate(2023, 3, 1)
LastCutoff == MakeDate(2024, 7, 31)

\* end of a request: absent, or any day of the range
FiscalEndChoices == {NullDate} \cup {x \in FirstCutoff..LastCutoff : IsDate(x)}

\* start of a request: absent, or a day that some of the ends precede
FiscalStartChoices == {NullDate, MakeDate(2023, 6, 1)}

\* the stores: empty, or one employee who stays, leaves within a month or
\* leaves after some months
FiscalStores ==
    {{}}
    \cup {{Record(1, 1, NULL, "E1", doj, lwd, "E1", "L1", "F", 1, "Pune", 30, 4)} :
             doj \in {MakeDate(2021, 6, 15)},
             lwd \in {NullDate, MakeDate(2023, 10, 15)}}
    \cup {{Record(1, 1, NULL, "E1", MakeDate(2023, 5, 10), MakeDate(2023, 5, 20),
                   NULL, "L1", "M", 1, "Pune", NoInt, NoInt)}}

InitFiscal ==
    /\ Upload = HeadcountUploads
    /\ DashboardMonth = SnapshotMonths
    /\ employee_dashboard_master \in FiscalStores
    /\ NoAccounts
    /\ request = NoRequest
    /\ snapshot = NoSnapshot
    /\ rows = <<>>
    /\ response = NoResponse

NextFiscal ==
    /\ request = NoRequest
    /\ \E start \in FiscalStartChoices, end \in FiscalEndChoices :
          AttritionOverview({}, NULL, NULL, "monthly", start, end, FiscalToday)

SpecFiscal == InitFiscal /\ [][NextFiscal]_vars

\* a served attrition request, and the cutoff its queries ran with
IsAttritionResponse ==
    request.endpoint = "attrition" /\ response.status = 200

Cutoff ==
    _resolve_period(request.granularity, request.start, request.end, request.today).end

\* April 1 of the fiscal year that contains day x
FiscalYearOf(x) ==
    CHOOSE a \in {MakeDate(YearOf(x) - 1, 4, 1), MakeDate(YearOf(x), 4, 1)} :
        a <= x /\ x < MakeDate(YearOf(a) + 1, 4, 1)

\* the last two digits of a year
LastTwoDigits(year) ==
    IF year % 100 < 10 THEN "0" \o ToString(year % 100) ELSE ToString(year % 100)

\* the labels of the rows that one of the attrition queries returned
LabelsOf(fetched) == [i \in DOMAIN fetched |-> fetched[i].label]

\* C8: for every cutoff there are exactly four fiscal windows, starting on
\* April 1 of four consecutive years, the last one the fiscal year of the
\* cutoff; the first three run to the next April 1 and are labelled FY+yy, the
\* last ends at min(next April 1, cutoff + 1 day) and is labelled YTD FY+yy
\* exactly when that is before the next April 1; yy is the ending year.
C8_FiscalWindows ==
    IsAttritionResponse =>
        LET bounds == year_bounds(Cutoff)
            current == FiscalYearOf(Cutoff)
            next_april(i) == MakeDate(YearOf(current) - 4 + i + 1, 4, 1)
            label(i) ==
                IF i = 4 /\ AddDay(Cutoff) < next_april(4)
                THEN "YTD FY" \o LastTwoDigits(YearOf(next_april(i)))
                ELSE "FY" \o LastTwoDigits(YearOf(next_april(i)))
            labels == [i \in 1..4 |-> label(i)]
        IN /\ DOMAIN bounds = 1..4
           /\ \A i \in 1..4 :
                 /\ bounds[i].year_start = MakeDate(YearOf(current) - 4 + i, 4, 1)
                 /\ i < 4 => bounds[i].year_end = next_april(i)
                 /\ FiscalLabel(bounds[i]) = label(i)
           /\ bounds[4].year_start <= Cutoff
           /\ bounds[4].year_end = Min(next_april(4), AddDay(Cutoff))
           /\ \A list \in DOMAIN rows :
                 rows[list] # <<>> /\ list # "entity_rows" => LabelsOf(rows[list]) = labels
           /\ LabelsOf(response.overall) = LabelsOf(rows.overall_rows)

\* the cutoff 2024-07-10 is served with the last window labelled YTD FY25
C8_Witness ==
    /\ IsAttritionResponse
    /\ Cutoff = MakeDate(2024, 7, 10)
    /\ year_bounds(Cutoff)[4].year_start = MakeDate(2024, 4, 1)
    /\ year_bounds(Cutoff)[4].year_end = MakeDate(2024, 7, 11)
    /\ LabelsOf(response.overall) = <<"FY22", "FY23", "FY24", "YTD FY25">>

\* C9: months_covered of every fiscal window is an integer in 1..12, the number
\* of calendar months [year_start, year_end) touches: 12 for a full window, and
\* for the clamped one the whole months since year_start plus one when days
\* remain after them.
C9_MonthsCovered ==
    IsAttritionResponse =>
        LET bounds == year_bounds(Cutoff)
            touched(y) == MonthIndex(SubDay(y.year_end)) - MonthIndex(y.year_start) + 1
            whole(y) == MonthIndex(y.year_end) - MonthIndex(y.year_start)
        IN /\ \A i \in 1..4 :
                 /\ bounds[i].months_covered \in 1..12
                 /\ bounds[i].months_covered = touched(bounds[i])
                 /\ bounds[i].year_end = bounds[i].fy_year_end
                       => bounds[i].months_covered = 12
                 /\ bounds[i].months_covered =
                       whole(bounds[i]) + (IF DayOf(bounds[i].year_end) > 1 THEN 1 ELSE 0)
           /\ \A list \in DOMAIN rows :
                 rows[list] # <<>> /\ list # "entity_rows" =>
                    \A i \in 1..4 :
                       rows[list][i].months_covered = bounds[i].months_covered
           /\ Cutoff = MakeDate(2024, 4, 1) => bounds[4].months_covered = 1
           /\ Cutoff = MakeDate(2024, 6, 30) => bounds[4].months_covered = 3
           /\ Cutoff = MakeDate(2024, 2, 29) => bounds[4].months_covered = 11

\* the cutoff 2024-07-10 is served with 4 months in the last window
C9_Witness ==
    /\ IsAttritionResponse
    /\ rows.overall_rows # <<>>
    /\ Cutoff = MakeDate(2024, 7, 10)
    /\ rows.overall_rows[4].months_covered = 4
    /\ rows.overall_rows[3].months_covered = 12

(***************************************************************************)
(* Specification SpecDemographics: the work level and entity breakdowns    *)
(* over stores whose rows may lack the grouping key.                       *)
(***************************************************************************)
DemographicsToday == MakeDate(2023, 7, 10)

\* grouping keys of a row: none, blank, a name
WorklevelChoices == {NULL, "", "L1"}
EntityChoices == {NULL, "E1"}

\* the rest of a row: a woman who stays, a man without cost who has left, a
\* row without gender that joins after the cutoff
ProfileChoices ==
    {[DOJ |-> MakeDate(2023, 1, 1), FinalLWD |-> NullDate, Gender |-> "F", CTC |-> 2,
      Age |-> 30, Tenure |-> 4],
     [DOJ |-> MakeDate(2023, 2, 15), FinalLWD |-> MakeDate(2023, 6, 15), Gender |-> "male",
      CTC |-> 0, Age |-> NoInt, Tenure |-> NoInt],
     [DOJ |-> MakeDate(2023, 8, 1), FinalLWD |-> NullDate, Gender |-> NULL, CTC |-> NoInt,
      Age |-> 41, Tenure |-> 0]}

DemographicsChoices ==
    [Worklevel : WorklevelChoices, Entity : EntityChoices, profile : ProfileChoices]

\* start / end of a request: absent (cutoff rule at the floor of today), or a
\* range
DemographicsRanges ==
    {[start |-> NullDate, end |-> NullDate],
     [start |-> MakeDate(2023, 3, 1), end |-> MakeDate(2023, 6, 30)],
     [start |-> NullDate, end |-> MakeDate(2022, 12, 31)]}

InitDemographics ==
    /\ Upload = HeadcountUploads
    /\ DashboardMonth = SnapshotMonths
    /\ \E n \in 0..MaxRecords : \E f \in [1..n -> DemographicsChoices] :
          employee_dashboard_master =
             {Record(i, 1, NULL, NULL, f[i].profile.DOJ, f[i].profile.FinalLWD,
                     f[i].Entity, f[i].Worklevel, f[i].profile.Gender, f[i].profile.CTC,
                     "Pune", f[i].profile.Age, f[i].profile.Tenure) : i \in 1..n}
    /\ NoAccounts
    /\ request = NoRequest
    /\ snapshot = NoSnapshot
    /\ rows = <<>>
    /\ response = NoResponse

WorklevelDemographics ==
    \E range \in DemographicsRanges :
        DemographicsOverview("monthly", range.start, range.end, DemographicsToday, {},
                             NULL, NULL)

EntityBreakdown ==
    \E range \in DemographicsRanges :
        EntityDemographics("monthly", range.start, range.end, DemographicsToday, {},
                           NULL, NULL)

NextDemographics ==
    request = NoRequest /\ (WorklevelDemographics \/ EntityBreakdown)

SpecDemographics == InitDemographics /\ [][NextDemographics]_vars

\* a served breakdown, its listed buckets (the Total row apart) and the
\* identities of latest that are active over the evaluation window of the request
IsBreakdownResponse ==
    request.endpoint \in {"demographics", "demographics/entities"} /\ response.status = 200

ListedBuckets ==
    IF request.endpoint = "demographics"
    THEN SelectSeq(response.worklevels, LAMBDA w : ~w.isTotal)
    ELSE response.entities

TotalRows == SelectSeq(response.worklevels, LAMBDA w : w.isTotal)

ActiveIdentities ==
    LET period == _resolve_period(request.granularity, request.start, request.end,
                                  request.today)
    IN {ed \in snapshot.latest :
           DemographicsActive(ed, request.start # NullDate \/ request.end # NullDate,
                              period.start, period.end, EntityFilter(request.entities))}

ListedHeadcount == SumSeq([i \in DOMAIN ListedBuckets |-> ListedBuckets[i].headcount])

ListedPct == FracSumSeq([i \in DOMAIN ListedBuckets |-> ListedBuckets[i].headcountPct])

\* C10: in the work level and the entity breakdown the listed buckets, the
\* Unspecified one included, hold every active identity: their headcounts sum
\* to the number of active identities, which is the headcount of the Total
\* row, and their headcountPct sum to 1 when there is an active identity, also
\* when rows have a null grouping key.
C10_BucketsCoverTotal ==
    IsBreakdownResponse =>
        /\ ListedHeadcount = Cardinality(ActiveIdentities)
        /\ ActiveIdentities # {} => ListedPct = One
        /\ request.endpoint = "demographics" =>
              /\ Len(TotalRows) = 1
              /\ TotalRows[1].headcount = Cardinality(ActiveIdentities)

\* the dimension of a served breakdown, the label of a listed bucket and the
\* active identities whose grouping key is null or blank
BreakdownDimension == IF request.endpoint = "demographics" THEN "worklevel" ELSE "entity"

BucketLabels == [i \in DOMAIN ListedBuckets |-> ListedBuckets[i][BreakdownDimension]]

KeylessIdentities ==
    {ed \in ActiveIdentities :
        \/ GroupingKey(ed, BreakdownDimension) = NULL
        \/ Trim(GroupingKey(ed, BreakdownDimension)) = ""}

\* C11: in the work level and the entity breakdown, the active identities whose
\* grouping key is null or blank are reported under one bucket labelled
\* "Unspecified" that holds their headcount, and the Total row still counts
\* every active identity: the keyless group is neither dropped nor taken for
\* the Total row.
C11_UnspecifiedBucket ==
    (IsBreakdownResponse /\ KeylessIdentities # {}) =>
        /\ \E i \in DOMAIN ListedBuckets :
              /\ BucketLabels[i] = "Unspecified"
              /\ ListedBuckets[i].headcount = Cardinality(KeylessIdentities)
              /\ \A j \in DOMAIN ListedBuckets : BucketLabels[j] = "Unspecified" => j = i
        /\ request.endpoint = "demographics" =>
              /\ Len(TotalRows) = 1
              /\ TotalRows[1].headcount = Cardinality(ActiveIdentities)

(***************************************************************************)
(* Specification SpecRatios: every endpoint that reports a ratio, over     *)
(* stores in which the denominators can be zero.                           *)
(***************************************************************************)
RatioToday == MakeDate(2023, 7, 10)

\* the rows a store is made of: an employee who stays and costs nothing, one
\* who joins and leaves within a month, one who joins after every cutoff
RatioRecords ==
    {Record(1, 1, NULL, "E1", MakeDate(2023, 1, 1), NullDate, "E1", "L1", "male", 0,
            "Pune", 30, 4),
     Record(2, 1, NULL, "E2", MakeDate(2023, 5, 10), MakeDate(2023, 5, 20), "E2", "L2",
            "F", 2, "Mumbai", 25, 0),
     Record(3, 1, NULL, "E3", MakeDate(2024, 1, 1), NullDate, "E1", "", NULL, NoInt,
            NULL, NoInt, NoInt)}

\* start / end / cutoff of a request: absent, before anybody joined, later
RatioDates == {NullDate, MakeDate(2022, 12, 1), MakeDate(2023, 6, 30)}

InitRatios ==
    /\ Upload = HeadcountUploads
    /\ DashboardMonth = SnapshotMonths
    /\ employee_dashboard_master \in SUBSET RatioRecords
    /\ NoAccounts
    /\ request = NoRequest
    /\ snapshot = NoSnapshot
    /\ rows = <<>>
    /\ response = NoResponse

RatiosManpower ==
    \E granularity \in Granularities, start \in RatioDates :
        ManpowerRampup(granularity, start, NullDate, RatioToday, {}, NULL, NULL)

RatiosLocation ==
    \E cutoff \in RatioDates, location_type \in {"physical", "entity"} :
        LocationHeadcount(location_type, cutoff, RatioToday, {}, NULL, NULL)

RatiosDemographics ==
    \E end \in RatioDates :
        DemographicsOverview("monthly", NullDate, end, RatioToday, {}, NULL, NULL)

RatiosEntityDemographics ==
    \E end \in RatioDates :
        EntityDemographics("monthly", NullDate, end, RatioToday, {}, NULL, NULL)

RatiosAttrition ==
    \E end \in RatioDates :
        AttritionOverview({}, NULL, NULL, "monthly", NullDate, end, RatioToday)

NextRatios ==
    /\ request = NoRequest
    /\ \/ RatiosManpower
       \/ RatiosLocation
       \/ RatiosDemographics
       \/ RatiosEntityDemographics
       \/ RatiosAttrition

SpecRatios == InitRatios /\ [][NextRatios]_vars

\* a ratio that is a number: no division by zero was raised for it
IsNumber(ratio) == ratio.den # 0

\* ramp_pct of manpower_rampup: 0 when the opening headcount is 0
RampRatios ==
    \A i \in DOMAIN response.points :
        /\ IsNumber(response.points[i].rampPct)
        /\ response.points[i].openingHeadcount = 0 => response.points[i].rampPct = Zero

\* percentage of location_headcount: 0 when the total is 0
LocationRatios ==
    \A i \in DOMAIN response.locations :
        /\ IsNumber(response.locations[i].percentage)
        /\ response.total = 0 => response.locations[i].percentage = Zero

\* headcountPct, costPct and femalePct of the buckets of a breakdown: 0 when
\* the total headcount, the total cost, the headcount of the bucket is 0
BucketRatios(buckets, dimension) ==
    \A i \in DOMAIN buckets :
        /\ IsNumber(buckets[i].headcountPct)
        /\ IsNumber(buckets[i].costPct)
        /\ IsNumber(buckets[i].femalePct)
        /\ OrZero(TotalsRow(rows, dimension).headcount) = 0
              => buckets[i].headcountPct = Zero
        /\ OrZero(TotalsRow(rows, dimension).total_ctc) = 0 => buckets[i].costPct = Zero
        /\ buckets[i].headcount = 0 => buckets[i].femalePct = Zero

\* the gender ratio of demographics_overview: 0 when the total headcount is 0
GenderRatios ==
    \A part \in DOMAIN response.genderRatio :
        /\ IsNumber(response.genderRatio[part])
        /\ OrZero(TotalsRow(rows, "worklevel").headcount) = 0
              => response.genderRatio[part] = Zero

\* the rates of attrition_overview: 0 when the denominator is 0
AttritionRatios ==
    \A k \in DOMAIN Measures :
        \A i \in DOMAIN rows[Measures[k].list] :
            LET m == Measures[k]
                row == rows[m.list][i]
                pct == response[m.out][i][m.field]
            IN /\ IsNumber(pct)
               /\ SelectedDenominator(row, m) = Zero => pct = Zero

\* C7: every ratio is 0, and no error, when its denominator is 0: ramp_pct,
\* the gender ratio, headcountPct, costPct, femalePct, the location percentage
\* and the attrition rate, the latter also with exits.
C7_ZeroDenominators ==
    response.status = 200 =>
        /\ request.endpoint = "manpower-rampup" => RampRatios
        /\ request.endpoint = "location-headcount" => LocationRatios
        /\ request.endpoint = "demographics" =>
              GenderRatios /\ BucketRatios(response.worklevels, "worklevel")
        /\ request.endpoint = "demographics/entities" =>
              BucketRatios(response.entities, "entity")
        /\ request.endpoint = "attrition" => AttritionRatios

\* an attrition row with an exit and no headcount at the start, at the end or
\* in any month is reported with the rate 0
C7_Witness ==
    /\ request.endpoint = "attrition"
    /\ response.status = 200
    /\ \E i \in DOMAIN rows.overall_rows :
          /\ rows.overall_rows[i].exits > 0
          /\ rows.overall_rows[i].headcount_start = 0
          /\ rows.overall_rows[i].headcount_end = 0
          /\ rows.overall_rows[i].monthly_headcount_sum = 0
          /\ response.overall[i].attritionPct = Zero

(***************************************************************************)
(* Specification SpecHires: the hires-exits endpoint over stores in which  *)
(* an identity has several records, with and without a join date, in the   *)
(* uploads of two organizations.                                           *)
(***************************************************************************)
HiresToday == MakeDate(2023, 7, 10)

HiresUploads ==
    <<[organizationId |-> "o1", dashboardMonthId |-> "m1", uploadedAt |-> 1],
      [organizationId |-> "o2", dashboardMonthId |-> "m1", uploadedAt |-> 2]>>

HiresChoices ==
    [uploadId : DOMAIN HiresUploads, EmpID : {NULL, "E1"},
     DOJ : {NullDate, MakeDate(2023, 1, 15), MakeDate(2023, 2, 15)},
     FinalLWD : {NullDate, MakeDate(2023, 2, 20)}]

\* the requests: a range of three months in every granularity, with and
\* without organization, and a monthly one with a start and the end absent
HiresRequests ==
    [granularity : Granularities, start : {MakeDate(2023, 1, 1)},
     end : {MakeDate(2023, 3, 31)}, organization_id : {NULL, "o1"}]
    \cup {[granularity |-> "monthly", start |-> MakeDate(2023, 2, 10), end |-> NullDate,
            organization_id |-> NULL]}

InitHires ==
    /\ Upload = HiresUploads
    /\ DashboardMonth = SnapshotMonths
    /\ \E n \in 0..MaxRecords : \E f \in [1..n -> HiresChoices] :
          employee_dashboard_master =
             {Record(i, f[i].uploadId, NULL, f[i].EmpID, f[i].DOJ, f[i].FinalLWD,
                     "E1", "L1", "F", 1, "Pune", 30, 4) : i \in 1..n}
    /\ NoAccounts
    /\ request = NoRequest
    /\ snapshot = NoSnapshot
    /\ rows = <<>>
    /\ response = NoResponse

NextHires ==
    /\ request = NoRequest
    /\ \E r \in HiresRequests :
          HiresExits(r.granularity, r.start, r.end, HiresToday, {}, r.organization_id,
                     NULL)

SpecHires == InitHires /\ [][NextHires]_vars

IsHiresResponse == request.endpoint = "hires-exits" /\ response.status = 200

\* the in-scope records of the identity of ed that have a join date
DatedRecordsOf(ed) ==
    {o \in RecordsInScope : IdentityKey(o) = IdentityKey(ed) /\ o.DOJ # NullDate}

\* C12: earliest_join holds exactly one record for every identity that has an
\* in-scope record with a join date and none for any other identity; the record
\* kept has the lowest DOJ, ties broken by the lowest record id, and no record
\* without DOJ is ever in it.
C12_EarliestJoinKeepsFirst ==
    IsHiresResponse =>
        /\ snapshot.earliest_join \subseteq RecordsInScope
        /\ \A ej \in snapshot.earliest_join : ej.DOJ # NullDate
        /\ \A ed \in RecordsInScope :
              LET kept == {ej \in snapshot.earliest_join : IdentityKey(ej) = IdentityKey(ed)}
              IN IF DatedRecordsOf(ed) = {} THEN kept = {}
                 ELSE /\ Cardinality(kept) = 1
                      /\ \A k \in kept : \A o \in DatedRecordsOf(ed) \ {k} :
                            \/ k.DOJ < o.DOJ
                            \/ k.DOJ = o.DOJ /\ k.id < o.id

\* C12 witness: an identity with two dated in-scope records, in the uploads of
\* two organizations, is represented by the one with the earlier DOJ although
\* its record id is the higher one
C12_Witness ==
    /\ IsHiresResponse
    /\ \E k \in snapshot.earliest_join, o \in RecordsInScope :
          /\ IdentityKey(o) = IdentityKey(k)
          /\ o.uploadId # k.uploadId
          /\ o.DOJ # NullDate
          /\ k.DOJ < o.DOJ
          /\ k.id > o.id

\* the identities of earliest_join hired, and of latest leaving, in the bucket
\* that starts at T
HiredIdentities(T) ==
    {IdentityKey(ej) : ej \in {o \in snapshot.earliest_join : IsBucketOf(T, o.DOJ)}}

ExitedIdentities(T) ==
    {IdentityKey(ed) : ed \in {o \in snapshot.latest :
                                  o.FinalLWD # NullDate /\ IsBucketOf(T, o.FinalLWD)}}

\* C13: every point of the hires-exits series reports as hires the number of
\* identities of earliest_join whose DOJ falls in the bucket of the point and as
\* exits the number of identities of latest whose LWD is set and falls in it;
\* an identity is a hire of at most one point and an exit of at most one point.
C13_HiresAndExits ==
    IsHiresResponse =>
        /\ \A i \in DOMAIN response.points :
              /\ response.points[i].hires =
                    Cardinality(HiredIdentities(response.points[i].periodStart))
              /\ response.points[i].exits =
                    Cardinality(ExitedIdentities(response.points[i].periodStart))
        /\ \A i, j \in DOMAIN response.points :
              i # j =>
                 /\ HiredIdentities(response.points[i].periodStart)
                       \cap HiredIdentities(response.points[j].periodStart) = {}
                 /\ ExitedIdentities(response.points[i].periodStart)
                       \cap ExitedIdentities(response.points[j].periodStart) = {}
        /\ SumSeq([i \in DOMAIN response.points |-> response.points[i].hires])
              <= Cardinality(snapshot.earliest_join)
        /\ SumSeq([i \in DOMAIN response.points |-> response.points[i].exits])
              <= Cardinality({ed \in snapshot.latest : ed.FinalLWD # NullDate})

\* C13 witness: a monthly series of several points in which an identity hired
\* in one bucket left in a later one, the hire taken from its earliest record
\* and the exit from its latest
C13_Witness ==
    /\ IsHiresResponse
    /\ request.granularity = "monthly"
    /\ \E i, j \in DOMAIN response.points :
          /\ i < j
          /\ response.points[i].hires = 1 /\ response.points[i].exits = 0
          /\ response.points[j].hires = 0 /\ response.points[j].exits = 1
          /\ \E ej \in snapshot.earliest_join, ed \in snapshot.latest :
                /\ IdentityKey(ej) = IdentityKey(ed)
                /\ ej.id # ed.id
                /\ IsBucketOf(response.points[i].periodStart, ej.DOJ)
                /\ IsBucketOf(response.points[j].periodStart, ed.FinalLWD)

(***************************************************************************)
(* Specification SpecAttrition: the attrition endpoint over stores whose   *)
(* join dates and last working days lie on and next to the window bounds.  *)
(***************************************************************************)
AttritionToday == MakeDate(2023, 7, 10)

\* a join date absent, on the last day before FY23, on its first day
AttritionDojChoices == {NullDate, MakeDate(2022, 3, 31), MakeDate(2022, 4, 1)}

\* a last working day absent, on the first day of FY23, on its last day
AttritionLwdChoices == {NullDate, MakeDate(2022, 4, 1), MakeDate(2023, 3, 31)}

\* end of a request: the day before FY23 ends, a day of FY24
AttritionEndChoices == {MakeDate(2023, 3, 30), MakeDate(2023, 6, 30)}

InitAttrition ==
    /\ Upload = HeadcountUploads
    /\ DashboardMonth = SnapshotMonths
    /\ \E n \in 0..MaxRecords :
         \E f \in [1..n -> [DOJ : AttritionDojChoices, FinalLWD : AttritionLwdChoices]] :
          employee_dashboard_master =
             {Record(i, 1, NULL, NULL, f[i].DOJ, f[i].FinalLWD, "E1", "L1", "F", 1,
                     "Pune", 30, 4) : i \in 1..n}
    /\ NoAccounts
    /\ request = NoRequest
    /\ snapshot = NoSnapshot
    /\ rows = <<>>
    /\ response = NoResponse

NextAttrition ==
    /\ request = NoRequest
    /\ \E end \in AttritionEndChoices :
          AttritionOverview({}, NULL, NULL, "monthly", NullDate, end, AttritionToday)

SpecAttrition == InitAttrition /\ [][NextAttrition]_vars

\* the identities of latest employed on the day before day x
EmployedBefore(x) ==
    {ed \in snapshot.latest :
        /\ ed.DOJ # NullDate /\ ed.DOJ < x
        /\ (ed.FinalLWD = NullDate \/ ed.FinalLWD >= x)}

\* the identities of latest whose last working day is in [from, to)
LeftWithin(from, to) ==
    {ed \in snapshot.latest :
        ed.FinalLWD # NullDate /\ from <= ed.FinalLWD /\ ed.FinalLWD < to}

\* C14: in the overall attrition rows, for every fiscal window [year_start,
\* year_end) over latest: headcount_start counts DOJ < year_start and (LWD null
\* or LWD >= year_start), headcount_end counts DOJ < year_end and (LWD null or
\* LWD >= year_end), exits counts LWD set with year_start <= LWD < year_end.
C14_WindowCounts ==
    (IsAttritionResponse /\ rows.overall_rows # <<>>) =>
        LET bounds == year_bounds(Cutoff)
        IN /\ DOMAIN rows.overall_rows = DOMAIN bounds
           /\ \A i \in DOMAIN bounds :
                 /\ rows.overall_rows[i].headcount_start =
                       Cardinality(EmployedBefore(bounds[i].year_start))
                 /\ rows.overall_rows[i].headcount_end =
                       Cardinality(EmployedBefore(bounds[i].year_end))
                 /\ rows.overall_rows[i].exits =
                       Cardinality(LeftWithin(bounds[i].year_start, bounds[i].year_end))

\* C14 witness: in the window of FY23 one employee who joined on its first day
\* is missing from headcount_start and counted in headcount_end, and another,
\* whose last working day is the day the clamped window ends, is counted at
\* both ends and is not an exit
C14_Witness ==
    /\ IsAttritionResponse
    /\ Cutoff = MakeDate(2023, 3, 30)
    /\ \E a, b \in snapshot.latest :
          /\ a.DOJ = MakeDate(2022, 4, 1) /\ a.FinalLWD = NullDate
          /\ b.DOJ = MakeDate(2022, 3, 31) /\ b.FinalLWD = MakeDate(2023, 3, 31)
    /\ year_bounds(Cutoff)[4].year_start = MakeDate(2022, 4, 1)
    /\ year_bounds(Cutoff)[4].year_end = MakeDate(2023, 3, 31)
    /\ rows.overall_rows[4].headcount_start = 1
    /\ rows.overall_rows[4].headcount_end = 2
    /\ rows.overall_rows[4].exits = 0

(***************************************************************************)
(* Specification SpecActive: the two demographics endpoints with and       *)
(* without an explicit range, over stores whose join dates and last        *)
(* working days lie on and next to the cutoff and the range bounds.        *)
(***************************************************************************)
ActiveToday == MakeDate(2023, 7, 10)

\* a join date absent, on the cutoff 2023-07-01 and on the days around it
ActiveDojChoices ==
    {NullDate, MakeDate(2023, 6, 30), MakeDate(2023, 7, 1), MakeDate(2023, 7, 2)}

\* a last working day absent, around the start of the range, around the cutoff
ActiveLwdChoices ==
    {NullDate, MakeDate(2023, 2, 28), MakeDate(2023, 3, 1), MakeDate(2023, 7, 1),
     MakeDate(2023, 7, 2)}

\* start / end of a request: both absent, both supplied, only one supplied
ActiveRanges ==
    {[start |-> NullDate, end |-> NullDate],
     [start |-> MakeDate(2023, 3, 1), end |-> MakeDate(2023, 6, 30)],
     [start |-> MakeDate(2023, 3, 1), end |-> NullDate],
     [start |-> NullDate, end |-> MakeDate(2023, 7, 1)]}

InitActive ==
    /\ Upload = HeadcountUploads
    /\ DashboardMonth = SnapshotMonths
    /\ \E n \in 0..MaxRecords :
         \E f \in [1..n -> [DOJ : ActiveDojChoices, FinalLWD : ActiveLwdChoices]] :
          employee_dashboard_master =
             {Record(i, 1, NULL, NULL, f[i].DOJ, f[i].FinalLWD, "E1", "L1", "F", 1,
                     "Pune", 30, 4) : i \in 1..n}
    /\ NoAccounts
    /\ request = NoRequest
    /\ snapshot = NoSnapshot
    /\ rows = <<>>
    /\ response = NoResponse

ActiveWorklevels ==
    \E range \in ActiveRanges :
        DemographicsOverview("monthly", range.start, range.end, ActiveToday, {}, NULL, NULL)

ActiveEntities ==
    \E range \in ActiveRanges :
        EntityDemographics("monthly", range.start, range.end, ActiveToday, {}, NULL, NULL)

NextActive == request = NoRequest /\ (ActiveWorklevels \/ ActiveEntities)

SpecActive == InitActive /\ [][NextActive]_vars

\* a range was requested; the resolved period of the request
RangeRequested == request.start # NullDate \/ request.end # NullDate

ResolvedPeriod ==
    _resolve_period(request.granularity, request.start, request.end, request.today)

\* the identities of latest the range rule and the cutoff rule select over the
\* resolved period, the cutoff being its end
RangeRulePopulation ==
    {ed \in snapshot.latest :
        /\ ed.DOJ # NullDate /\ ed.DOJ <= ResolvedPeriod.end
        /\ (ed.FinalLWD = NullDate \/ ed.FinalLWD >= ResolvedPeriod.start)}

CutoffRulePopulation ==
    {ed \in snapshot.latest :
        /\ ed.DOJ # NullDate /\ ed.DOJ <= ResolvedPeriod.end
        /\ (ed.FinalLWD = NullDate \/ ed.FinalLWD > ResolvedPeriod.end)}

\* C15: the demographics breakdowns count the population of the range rule
\* (DOJ <= end and (LWD null or LWD >= start)) exactly when start or end was
\* supplied, and otherwise that of the cutoff rule (DOJ <= cutoff and (LWD null
\* or LWD > cutoff)): a last working day on the cutoff is out, one on start is in.
C15_ActivePopulationRule ==
    IsBreakdownResponse =>
        /\ ListedHeadcount =
              Cardinality(IF RangeRequested THEN RangeRulePopulation
                          ELSE CutoffRulePopulation)
        /\ request.endpoint = "demographics" =>
              TotalRows[1].headcount =
                 Cardinality(IF RangeRequested THEN RangeRulePopulation
                             ELSE CutoffRulePopulation)
        /\ (~RangeRequested /\ \A ed \in snapshot.latest :
                                  ed.FinalLWD = ResolvedPeriod.end) =>
              ListedHeadcount = 0
        /\ (RangeRequested /\ \A ed \in snapshot.latest :
                                 /\ ed.DOJ # NullDate /\ ed.DOJ <= ResolvedPeriod.end
                                 /\ ed.FinalLWD = ResolvedPeriod.start) =>
              ListedHeadcount = Cardinality(snapshot.latest)

\* C15 witness: a request with a range counts an employee whose last working
\* day is the start of the range and leaves out one who left the day before
C15_Witness ==
    /\ IsBreakdownResponse
    /\ RangeRequested
    /\ request.start # NullDate /\ request.end # NullDate
    /\ ListedHeadcount = 1
    /\ \E a, b \in snapshot.latest :
          /\ a.DOJ # NullDate /\ a.DOJ <= ResolvedPeriod.end
          /\ a.FinalLWD = ResolvedPeriod.start
          /\ b.DOJ # NullDate /\ b.DOJ <= ResolvedPeriod.end
          /\ b.FinalLWD = SubDay(ResolvedPeriod.start)

(***************************************************************************)
(* Specification SpecGender: the two demographics endpoints over stores    *)
(* of active employees whose gender is absent, starts with F or M in       *)
(* either case, or is something else.                                      *)
(***************************************************************************)
GenderToday == MakeDate(2023, 7, 10)

GenderChoices == {NULL, "F", "f", "male", "Other"}

InitGender ==
    /\ Upload = HeadcountUploads
    /\ DashboardMonth = SnapshotMonths
    /\ \E n \in 0..MaxRecords :
         \E f \in [1..n -> [Gender : GenderChoices, Worklevel : {NULL, "L1"}]] :
          employee_dashboard_master =
             {Record(i, 1, NULL, NULL, MakeDate(2023, 1, 1), NullDate, "E1",
                     f[i].Worklevel, f[i].Gender, 1, "Pune", 30, 4) : i \in 1..n}
    /\ NoAccounts
    /\ request = NoRequest
    /\ snapshot = NoSnapshot
    /\ rows = <<>>
    /\ response = NoResponse

GenderWorklevels ==
    DemographicsOverview("monthly", NullDate, NullDate, GenderToday, {}, NULL, NULL)

GenderEntities ==
    EntityDemographics("monthly", NullDate, NullDate, GenderToday, {}, NULL, NULL)

NextGender == request = NoRequest /\ (GenderWorklevels \/ GenderEntities)

SpecGender == InitGender /\ [][NextGender]_vars

\* of a population, the identities whose gender text starts with F or f, with
\* M or m
Females(population) ==
    {ed \in population : ed.Gender \in {"F", "f", "Female", "female"}}

Males(population) ==
    {ed \in population : ed.Gender \in {"M", "m", "Male", "male"}}

\* a share between 0 and 1
IsShare(ratio) == ratio.den > 0 /\ 0 <= ratio.num /\ ratio.num <= ratio.den

\* the active identities of one key of the dimension of the breakdown
KeyGroup(key) == {ed \in ActiveIdentities : GroupingKey(ed, BreakdownDimension) = key}

\* the populations the totals row of the query can stand for: every active
\* identity or, when some have a null key, those
TotalPopulations == {ActiveIdentities} \cup ({KeyGroup(NULL)} \ {{}})

ScopeToday == MakeDate(2024, 7, 10)

ScopeUploads ==
    <<[organizationId |-> "o1", dashboardMonthId |-> "m1", uploadedAt |-> 1],
      [organizationId |-> "o1", dashboardMonthId |-> "m2", uploadedAt |-> 2],
      [organizationId |-> "o1", dashboardMonthId |-> NULL, uploadedAt |-> 3],
      [organizationId |-> "o2", dashboardMonthId |-> "m1", uploadedAt |-> 4]>>

InitScope ==
    /\ \E k \in 0..Len(ScopeUploads) : Upload = SubSeq(ScopeUploads, 1, k)
    /\ DashboardMonth = SnapshotMonths
    /\ \E n \in 0..MaxRecords :
         \E f \in [1..n -> [uploadId : DOMAIN Upload, EmpID : {NULL, "E1"},
                            DOJ : {NullDate, MakeDate(2020, 1, 1)}]] :
          employee_dashboard_master =
             {Record(i, f[i].uploadId, NULL, f[i].EmpID, f[i].DOJ, NullDate, "E1", "L1",
                     "F", 1, "Pune", 30, 4) : i \in 1..n}
    /\ NoAccounts
    /\ request = NoRequest
    /\ snapshot = NoSnapshot
    /\ rows = <<>>
    /\ response = NoResponse

NextScope ==
    /\ request = NoRequest
    /\ \E organization_id \in {NULL, "o1", "o2", "o3"},
          month_key \in {NULL, "2024-06", "2024-13"} :
          LocationHeadcount("physical", NullDate, ScopeToday, {}, organization_id,
                            month_key)

SpecScope == InitScope /\ [][NextScope]_vars

\* the months that carry the key of the request, and the uploads of the
\* organization of the request that have a month
MonthsOfKey == {dm \in DashboardMonth : dm.monthKey = request.month_key}

UploadsWithMonth ==
    {u \in DOMAIN Upload :
        /\ Upload[u].organizationId = request.organization_id
        /\ Upload[u].dashboardMonthId # NULL}

\* the uploads a query of the resolved scope ranges over
UploadsInScope ==
    {u \in DOMAIN Upload :
        /\ snapshot.organization_id # NULL =>
              Upload[u].organizationId = snapshot.organization_id
        /\ snapshot.dashboard_month_id # NULL =>
              Upload[u].dashboardMonthId = snapshot.dashboard_month_id}

\* C19: a month_key resolves to the DashboardMonth of that key and is echoed,
\* or the request fails with 404 when there is none; without month_key and with
\* organization_id the month is that of the organization's most recently
\* uploaded Upload that has a month, or none, without error, when it has no
\* such upload; a scope that matches no Upload leaves latest and earliest_join
\* empty.
C19_ScopeResolution ==
    request.endpoint = "location-headcount" =>
        /\ request.month_key # NULL =>
              IF MonthsOfKey = {} THEN response.status = 404
              ELSE /\ response.status = 200
                   /\ response.monthKey = request.month_key
                   /\ \E dm \in MonthsOfKey : snapshot.dashboard_month_id = dm.id
        /\ (request.month_key = NULL /\ request.organization_id # NULL) =>
              /\ response.status = 200
              /\ IF UploadsWithMonth = {}
                 THEN snapshot.dashboard_month_id = NULL /\ response.monthKey = NULL
                 ELSE \E u \in UploadsWithMonth :
                         /\ \A o \in UploadsWithMonth :
                               Upload[o].uploadedAt <= Upload[u].uploadedAt
                         /\ snapshot.dashboard_month_id = Upload[u].dashboardMonthId
                         /\ \E dm \in DashboardMonth :
                               /\ dm.id = Upload[u].dashboardMonthId
                               /\ response.monthKey = dm.monthKey
        /\ response.status = 200 =>
              /\ snapshot.organization_id = request.organization_id
              /\ UploadsInScope = {} =>
                    snapshot.latest = {} /\ snapshot.earliest_join = {}

\* C19 witness: without month_key, an organization whose newest upload has no
\* month is resolved to the month of its newest upload that has one, and the
\* records of its other uploads are out of the snapshot
C19_Witness ==
    /\ request.endpoint = "location-headcount"
    /\ response.status = 200
    /\ request.month_key = NULL
    /\ request.organization_id = "o1"
    /\ Len(Upload) >= 3
    /\ snapshot.dashboard_month_id = "m2"
    /\ response.monthKey = "2024-07"
    /\ snapshot.latest # {}
    /\ \E ed \in employee_dashboard_master : ed.uploadId = 3

(***************************************************************************)
(* Specification SpecIsolation: a request of organization o1 to one of the *)
(* six analytics endpoints, a change of the uploads and records of another *)
(* organization, and the same request again.                               *)
(***************************************************************************)
IsolationToday == MakeDate(2023, 7, 10)

IsolationStart == MakeDate(2023, 1, 1)

IsolationEnd == MakeDate(2023, 6, 30)

\* the upload of o1, alone or followed by an upload of o2 for the same or
\* another month, older or newer
IsolationUploadTables ==
    {<<[organizationId |-> "o1", dashboardMonthId |-> "m1", uploadedAt |-> 2]>>}
    \cup {<<[organizationId |-> "o1", dashboardMonthId |-> "m1", uploadedAt |-> 2],
            [organizationId |-> "o2", dashboardMonthId |-> m, uploadedAt |-> t]>> :
             m \in {"m1", "m2"}, t \in {1, 3}}

\* a record of the upload of o1, or of the upload of o2 with other dates, entity,
\* work level, gender, cost, location, age and tenure
IsolationRecord(i, uploadId, empId) ==
    IF uploadId = 1
    THEN Record(i, 1, NULL, empId, MakeDate(2023, 1, 15), NullDate, "E1", "L1", "F", 1,
                "Pune", 30, 4)
    ELSE Record(i, uploadId, NULL, empId, MakeDate(2022, 1, 15), MakeDate(2023, 5, 20),
                "E2", "L2", "M", 2, "Mumbai", 45, 10)

\* the record tables over an upload table: any record ids, records of o1 with
\* the employee id E1 or without one, records of o2 with the employee id E1
IsolationRecordTables(uploads) ==
    UNION {{{IsolationRecord(i, f[i].uploadId, f[i].EmpID) : i \in ids} :
               f \in [ids -> {c \in [uploadId : DOMAIN uploads, EmpID : {NULL, "E1"}] :
                                 c.uploadId = 1 \/ c.EmpID = "E1"}]} :
              ids \in SUBSET (1..MaxRecords)}

InitIsolation ==
    /\ Upload \in IsolationUploadTables
    /\ DashboardMonth = SnapshotMonths
    /\ employee_dashboard_master \in IsolationRecordTables(Upload)
    /\ NoAccounts
    /\ request = NoRequest
    /\ snapshot = NoSnapshot
    /\ rows = <<>>
    /\ response = NoResponse

\* a request of organization o1 to the endpoint, with or without month key
IsolationRequest(endpoint, month_key) ==
    CASE endpoint = "manpower-rampup" ->
            ManpowerRampup("monthly", IsolationStart, IsolationEnd, IsolationToday, {},
                           "o1", month_key)
      [] endpoint = "hires-exits" ->
            HiresExits("monthly", IsolationStart, IsolationEnd, IsolationToday, {}, "o1",
                       month_key)
      [] endpoint = "demographics" ->
            DemographicsOverview("monthly", IsolationStart, IsolationEnd, IsolationToday,
                                 {}, "o1", month_key)
      [] endpoint = "demographics/entities" ->
            EntityDemographics("monthly", IsolationStart, IsolationEnd, IsolationToday,
                               {}, "o1", month_key)
      [] endpoint = "location-headcount" ->
            LocationHeadcount("physical", IsolationEnd, IsolationToday, {}, "o1", month_key)
      [] endpoint = "attrition" ->
            AttritionOverview({}, "o1", month_key, "monthly", IsolationStart, IsolationEnd,
                              IsolationToday)

IsolationEndpoints ==
    {"manpower-rampup", "hires-exits", "demographics", "demographics/entities",
     "location-headcount", "attrition"}

FirstRequest ==
    /\ request = NoRequest
    /\ \E endpoint \in IsolationEndpoints, month_key \in {NULL, "2024-06"} :
          IsolationRequest(endpoint, month_key)

\* another organization ingests or deletes: its uploads and its records change
\* in any way, those of o1 stay
ForeignChange ==
    /\ request # NoRequest
    /\ \E uploads \in IsolationUploadTables :
         \E records \in IsolationRecordTables(uploads) :
            /\ {ed \in records : ed.uploadId = 1}
                  = {ed \in employee_dashboard_master : ed.uploadId = 1}
            /\ <<uploads, records>> # <<Upload, employee_dashboard_master>>
            /\ Upload' = uploads
            /\ employee_dashboard_master' = records
    /\ UNCHANGED <<DashboardMonth, accounts, request, snapshot, rows, response>>

\* the request that was served is sent again
SameRequestAgain ==
    /\ request # NoRequest
    /\ IsolationRequest(request.endpoint, request.month_key)

NextIsolation == FirstRequest \/ ForeignChange \/ SameRequestAgain

SpecIsolation == InitIsolation /\ [][NextIsolation]_vars

\* C20: with organization_id supplied, a request served again after the uploads
\* and records of other organizations changed in any way, employee ids shared
\* with them included, returns the same rows and the same response.
C20_OrganizationIsolation ==
    [][(request # NoRequest /\ request' = request)
          => (response' = response /\ rows' = rows /\ snapshot' = snapshot)]_vars

\* C20 witness: a request of o1 is served from a store in which a record of a
\* newer upload of o2, for the same month, carries the employee id of a record
\* of o1, and the snapshot holds the record of o1
C20_Witness ==
    /\ request # NoRequest
    /\ response.status = 200
    /\ request.organization_id = "o1"
    /\ \E own \in snapshot.latest, foreign \in employee_dashboard_master :
          /\ Upload[own.uploadId].organizationId = "o1"
          /\ Upload[foreign.uploadId].organizationId = "o2"
          /\ Upload[foreign.uploadId].dashboardMonthId = Upload[own.uploadId].dashboardMonthId
          /\ Upload[foreign.uploadId].uploadedAt > Upload[own.uploadId].uploadedAt
          /\ IdentityKey(foreign) = IdentityKey(own)

(***************************************************************************)
(* Specification SpecConsistency: the attrition endpoint statement by      *)
(* statement, with dashboard deletions committing in between.  fetch_one   *)
(* and fetch_all take a connection of the pool for one statement, so the   *)
(* scope lookup and each of the four queries of a request is a transaction *)
(* of its own; the deletion is one transaction.  Here request and response *)
(* hold the analytics request in flight and its response, and the response *)
(* of the last deletion, side by side.                                     *)
(***************************************************************************)
ConsistencyToday == MakeDate(2023, 7, 10)

ConsistencyEnd == MakeDate(2023, 6, 30)

\* one organization with a dashboard of one month or of two months
ConsistencyUploads ==
    {<<[organizationId |-> "o1", dashboardMonthId |-> "m1", uploadedAt |-> 1]>>,
     <<[organizationId |-> "o1", dashboardMonthId |-> "m1", uploadedAt |-> 1],
       [organizationId |-> "o1", dashboardMonthId |-> "m2", uploadedAt |-> 2]>>}

\* the four statements of attrition_overview, in the order it runs them
AttritionStatements == <<"overall_rows", "entity_rows", "age_gender_rows", "tenure_rows">>

\* the rows one statement of attrition_overview fetches from a snapshot
AttritionStatement(name, snap, cutoff, entity_filter) ==
    CASE name = "overall_rows" -> overall_attrition_sql(snap, cutoff, entity_filter)
      [] name = "entity_rows" -> entity_attrition_sql(snap, cutoff, entity_filter)
      [] name = "age_gender_rows" -> age_gender_sql(snap, cutoff, entity_filter)
      [] name = "tenure_rows" -> tenure_sql(snap, cutoff, entity_filter)

\* the rows of the four statements when all of them read one snapshot
AttritionRowsOf(snap, cutoff, entity_filter) ==
    [overall_rows |-> overall_attrition_sql(snap, cutoff, entity_filter),
     entity_rows |-> entity_attrition_sql(snap, cutoff, entity_filter),
     age_gender_rows |-> age_gender_sql(snap, cutoff, entity_filter),
     tenure_rows |-> tenure_sql(snap, cutoff, entity_filter)]

\* attrition_overview up to its first query: _resolve_analytics_scope reads the
\* scope from the store and resolves the period
attrition_overview_scope(entities, organization_id, month_key, granularity, start, end, today) ==
    /\ request = NoRequest
    /\ \E scope \in _resolve_org_month_scope(organization_id, month_key) :
        \E period \in {_resolve_period(granularity, start, end, today)} :
           /\ request' = [endpoint |-> "attrition", granularity |-> granularity,
                          start |-> start, end |-> end, today |-> today,
                          entities |-> entities,
                          organization_id |-> organization_id, month_key |-> month_key,
                          scope |-> scope, period |-> period,
                          pc |-> IF scope.status = 404 \/ period.status = 400
                                 THEN 5 ELSE 1]
           /\ response' =
                 [response EXCEPT !.analytics =
                     IF scope.status = 404
                     THEN [status |-> 404, detail |-> "Dashboard month not found."]
                     ELSE IF period.status = 400
                     THEN [status |-> 400, detail |-> "End date must be after start date."]
                     ELSE NoResponse]
    /\ snapshot' = <<>>
    /\ rows' = <<>>
    /\ UNCHANGED store

\* the next fetch_all of attrition_overview: the statement evaluates the
\* snapshot CTE on the store as it is now; after the last one the payload is
\* built from the rows fetched
attrition_overview_fetch ==
    /\ request # NoRequest
    /\ request.pc \in DOMAIN AttritionStatements
    /\ \E name \in {AttritionStatements[request.pc]},
          snap \in {SnapshotOf(request.scope.org_id, request.scope.dashboard_month_id)} :
        \E fetched \in {[k \in DOMAIN rows \cup {name} |->
                            IF k = name
                            THEN AttritionStatement(name, snap, request.period.end,
                                                    EntityFilter(request.entities))
                            ELSE rows[k]]} :
           /\ snapshot' = Append(snapshot, snap)
           /\ rows' = fetched
           /\ response' =
                 [response EXCEPT !.analytics =
                     IF request.pc = Len(AttritionStatements)
                     THEN AttritionPayload(fetched, request.scope.month_key)
                     ELSE NoResponse]
    /\ request' = [request EXCEPT !.pc = request.pc + 1]
    /\ UNCHANGED store

\* DELETE FROM "Upload" WHERE "id" = ANY(upload_ids)
DeletedUploads(upload_ids) == [u \in DOMAIN Upload \ upload_ids |-> Upload[u]]

\* delete_dashboard: the uploads of the organization and month are selected and
\* the release, the records and the uploads are deleted in one transaction.
\* The organization and month columns of a record are those of its upload.
delete_dashboard(organization_id, month_key) ==
    /\ \E scope \in _resolve_org_month_scope(organization_id, month_key) :
         IF scope.status = 404
         THEN /\ response' = [response EXCEPT !.admin =
                                 [status |-> 404, detail |-> "Dashboard month not found."]]
              /\ UNCHANGED store
         ELSE IF scope.org_id = NULL \/ scope.dashboard_month_id = NULL
                    \/ scope.month_key = NULL
         THEN /\ response' = [response EXCEPT !.admin =
                                 [status |-> 400,
                                  detail |-> "Invalid organization or month."]]
              /\ UNCHANGED store
         ELSE \E upload_ids \in
                   {{u \in DOMAIN Upload :
                        /\ Upload[u].organizationId = scope.org_id
                        /\ Upload[u].dashboardMonthId = scope.dashboard_month_id}} :
                /\ DashboardRelease' =
                      {r \in DashboardRelease :
                          ~(/\ r.organizationId = scope.org_id
                            /\ r.dashboardMonthId = scope.dashboard_month_id)}
                /\ employee_dashboard_master' =
                      {ed \in employee_dashboard_master : ed.uploadId \notin upload_ids}
                /\ Upload' = DeletedUploads(upload_ids)
                /\ response' = [response EXCEPT !.admin =
                                   [status |-> 200, message |-> "Dashboard data deleted.",
                                    organizationId |-> scope.org_id,
                                    monthKey |-> scope.month_key,
                                    deletedUploads |-> Cardinality(upload_ids)]]
                /\ UNCHANGED <<DashboardMonth, Organization, User, PasswordReset, now>>
    /\ UNCHANGED <<request, snapshot, rows>>

InitConsistency ==
    /\ Upload \in ConsistencyUploads
    /\ DashboardMonth = SnapshotMonths
    /\ \E ids \in SUBSET (1..MaxRecords) :
         \E f \in [ids -> [uploadId : DOMAIN Upload,
                            FinalLWD : {NullDate, MakeDate(2023, 3, 31)}]] :
          employee_dashboard_master =
             {Record(i, f[i].uploadId, NULL, "E1", MakeDate(2022, 3, 31), f[i].FinalLWD,
                     "E1", "L1", "F", 1, "Pune", 30, 4) : i \in ids}
    /\ Organization = {"o1"}
    /\ User = <<>>
    /\ PasswordReset = {}
    /\ DashboardRelease \in
          SUBSET {[organizationId |-> "o1", dashboardMonthId |-> "m1", releasedAt |-> 0]}
    /\ now = 0
    /\ request = NoRequest
    /\ snapshot = <<>>
    /\ rows = <<>>
    /\ response = [analytics |-> NoResponse, admin |-> NoResponse]

ConsistencyRequest ==
    \E month_key \in {NULL, "2024-06", "2024-05"} :
       attrition_overview_scope({}, "o1", month_key, "monthly", NullDate, ConsistencyEnd,
                                ConsistencyToday)

ConsistencyDelete ==
    \E organization_id \in {NULL, "o1"}, month_key \in {NULL, "2024-06", "2024-05"} :
       delete_dashboard(organization_id, month_key)

NextConsistency == ConsistencyRequest \/ attrition_overview_fetch \/ ConsistencyDelete

SpecConsistency == InitConsistency /\ [][NextConsistency]_vars

\* C21: every analytics request sees one snapshot of the store: when an
\* attrition request has been answered, the rows of its four queries are the
\* rows that one of the store states the request read gives to all four, even
\* when a dashboard deletion committed while the request was served.
C21_OneSnapshot ==
    (request # NoRequest /\ response.analytics.status = 200)
       => \E i \in DOMAIN snapshot :
             rows = AttritionRowsOf(snapshot[i], request.period.end,
                                    EntityFilter(request.entities))

(***************************************************************************)
(* The monthly sums of the attrition families, over SpecAttrition.         *)
(***************************************************************************)
\* the six monthly_<bucket>_sum columns of the i-th tenure row, added up
TenureMonthlyTotal(i) ==
    SumSeq([k \in DOMAIN TenureBuckets |->
               rows.tenure_rows[i]["monthly_" \o TenureBuckets[k].key \o "_sum"]])

\* C22: every attrition family counts an identity in month M under the same
\* rule (DOJ not null, DOJ <= M, LWD null or LWD >= M + 1 month), so in every
\* fiscal-year row the six tenure-bucket monthly sums add up to the overall
\* monthly headcount sum.
C22_MonthlyContribution ==
    (request # NoRequest /\ response.status = 200)
       => \A i \in DOMAIN rows.overall_rows :
             TenureMonthlyTotal(i) = rows.overall_rows[i].monthly_headcount_sum

(***************************************************************************)
(* The months of a window, over SpecFiscal.                                *)
(***************************************************************************)
\* the number of calendar months that lie entirely inside [year_start, year_end)
WholeMonthsInside(y) ==
    Cardinality({k \in 1..12 : AddMonths(y.year_start, k) <= y.year_end})

\* C23: only whole calendar months entirely inside [year_start, year_end)
\* contribute to a window's monthly headcount sum, no month past cutoff + 1
\* day among them: the sum of a window is at most one count of every identity
\* for every whole month inside the window.
C23_WholeMonths ==
    IsAttritionResponse
       => \A i \in DOMAIN rows.overall_rows :
             rows.overall_rows[i].monthly_headcount_sum
                <= WholeMonthsInside(year_bounds(Cutoff)[i]) * Cardinality(snapshot.latest)

(***************************************************************************)
(* Specification SpecTenure: the attrition endpoint over records whose     *)
(* join dates sit on and next to a bucket boundary, or are missing, whose  *)
(* last working days fall before or after the join date, and whose stored  *)
(* tenure column says something else.                                      *)
(***************************************************************************)
TenureToday == MakeDate(2023, 7, 10)

\* end of a request: a day after the last working days, the day before them
TenureEndChoices == {MakeDate(2023, 6, 30), MakeDate(2023, 4, 14)}

\* join date and last working day of a record: 120 months, 6 months and a day
\* less than 6 months before 2023-04-01, a last working day before the join
\* date, and no join date
TenureChoices ==
    {[DOJ |-> MakeDate(2013, 4, 1), FinalLWD |-> NullDate],
     [DOJ |-> MakeDate(2022, 10, 1), FinalLWD |-> MakeDate(2023, 4, 15)],
     [DOJ |-> MakeDate(2022, 10, 2), FinalLWD |-> NullDate],
     [DOJ |-> MakeDate(2023, 5, 10), FinalLWD |-> MakeDate(2023, 4, 15)],
     [DOJ |-> NullDate, FinalLWD |-> MakeDate(2023, 4, 15)],
     [DOJ |-> NullDate, FinalLWD |-> NullDate]}

InitTenure ==
    /\ Upload = HeadcountUploads
    /\ DashboardMonth = SnapshotMonths
    /\ \E n \in 0..MaxRecords :
         \E f \in [1..n -> TenureChoices] :
          employee_dashboard_master =
             {Record(i, 1, NULL, NULL, f[i].DOJ, f[i].FinalLWD, "E1", "L1", "F", 1,
                     "Pune", 30, 40) : i \in 1..n}
    /\ NoAccounts
    /\ request = NoRequest
    /\ snapshot = NoSnapshot
    /\ rows = <<>>
    /\ response = NoResponse

NextTenure ==
    /\ request = NoRequest
    /\ \E end \in TenureEndChoices :
          AttritionOverview({}, NULL, NULL, "monthly", NullDate, end, TenureToday)

SpecTenure == InitTenure /\ [][NextTenure]_vars

\* the complete months from doj to ref, none when ref is before doj
CompleteMonths(doj, ref) ==
    IF ref < doj THEN 0
    ELSE CHOOSE n \in 0..(12 * (YearOf(ref) - YearOf(doj) + 1)) :
            AddMonths(doj, n) <= ref /\ ref < AddMonths(doj, n + 1)

\* the months of bucket b, as a range of the non-negative integers
InTenureRange(months, b) ==
    b.lower <= months /\ (b.upper = NoInt \/ months < b.upper)

\* the identities of latest with a join date that a window counts at its
\* start, at its end and as exits
TenureCounted(y, family) ==
    {ed \in snapshot.latest :
        /\ ed.DOJ # NullDate
        /\ CASE family = "start_" ->
                   ed.DOJ < y.year_start
                      /\ (ed.FinalLWD = NullDate \/ ed.FinalLWD >= y.year_start)
             [] family = "end_" ->
                   ed.DOJ < y.year_end
                      /\ (ed.FinalLWD = NullDate \/ ed.FinalLWD >= y.year_end)
             [] family = "exits_" ->
                   ed.FinalLWD # NullDate /\ ed.FinalLWD >= y.year_start
                      /\ ed.FinalLWD < y.year_end}

\* the date the tenure of ed is taken at, for a family of counts
TenureReference(ed, y, family) ==
    CASE family = "start_" -> y.year_start
      [] family = "end_" -> y.year_end
      [] family = "exits_" -> ed.FinalLWD

\* the six bucket columns of a family in the i-th tenure row, added up
TenureBucketTotal(i, family) ==
    SumSeq([k \in DOMAIN TenureBuckets |->
               rows.tenure_rows[i][family \o TenureBuckets[k].key]])

\* every bucket column of the start, end and exit families of every window
\* counts the identities whose complete months from DOJ to the reference date
\* are in the range of the bucket, whatever the stored tenure says
BucketsByCompleteMonths ==
    \A i \in DOMAIN rows.tenure_rows :
       \A family \in {"start_", "end_", "exits_"}, k \in DOMAIN TenureBuckets :
          rows.tenure_rows[i][family \o TenureBuckets[k].key]
             = Cardinality({ed \in TenureCounted(year_bounds(Cutoff)[i], family) :
                   InTenureRange(
                      CompleteMonths(ed.DOJ,
                         TenureReference(ed, year_bounds(Cutoff)[i], family)),
                      TenureBuckets[k])})

SameIdentity(a, b) ==
    \/ a = b
    \/ /\ Upload[a.uploadId].organizationId = Upload[b.uploadId].organizationId
       /\ \/ a.NewEmpID # NULL /\ b.NewEmpID # NULL /\ a.NewEmpID = b.NewEmpID
          \/ /\ a.NewEmpID = NULL /\ b.NewEmpID = NULL
             /\ a.EmpID # NULL /\ b.EmpID # NULL /\ a.EmpID = b.EmpID

\* C25: the in-scope records fall into identities by new id when both have
\* one, else by old id when neither has a new id, a record with neither being
\* alone; a record keyed by old id or row id is never merged with one whose
\* new id is the same string, nor records of different organizations: latest
\* holds one record of every such identity.
C25_IdentityClasses ==
    (request # NoRequest /\ response.status = 200)
       => /\ \A a, b \in snapshot.latest : a # b => ~SameIdentity(a, b)
          /\ \A a \in RecordsInScope : \E b \in snapshot.latest : SameIdentity(a, b)

(***************************************************************************)
(* Specification SpecPeriod: the manpower endpoint, which echoes the       *)
(* resolved period, on every day from the end of 2023 to the end of April  *)
(* 2024 (January, the leap day, two quarter starts), with neither, one or  *)
(* both bounds supplied.                                                   *)
(***************************************************************************)
PeriodTodayChoices == {x \in MakeDate(2023, 12, 30)..MakeDate(2024, 4, 30) : IsDate(x)}

\* a start supplied: none, long before, inside and after the days of today
PeriodStartChoices ==
    {NullDate, MakeDate(2023, 6, 15), MakeDate(2024, 2, 1), MakeDate(2024, 6, 1)}

\* an end supplied: none, before every default start, inside the days of today
PeriodEndChoices == {NullDate, MakeDate(2013, 6, 15), MakeDate(2024, 2, 1)}

InitPeriod ==
    /\ Upload = HeadcountUploads
    /\ DashboardMonth = SnapshotMonths
    /\ employee_dashboard_master =
          {Record(1, 1, NULL, "E1", MakeDate(2020, 1, 1), NullDate, "E1", "L1", "F", 1,
                  "Pune", 30, 4)}
    /\ NoAccounts
    /\ request = NoRequest
    /\ snapshot = NoSnapshot
    /\ rows = <<>>
    /\ response = NoResponse

NextPeriod ==
    /\ request = NoRequest
    /\ \E granularity \in Granularities, today \in PeriodTodayChoices,
          start \in PeriodStartChoices, end \in PeriodEndChoices :
          ManpowerRampup(granularity, start, end, today, {}, NULL, NULL)

SpecPeriod == InitPeriod /\ [][NextPeriod]_vars

\* day x is the first day of a bucket of the granularity
IsBucketStart(granularity, x) ==
    /\ DayOf(x) = 1
    /\ granularity = "quarterly" => MonthOf(x) \in {1, 4, 7, 10}
    /\ granularity = "yearly" => MonthOf(x) = 1

\* the number of buckets of the default window
DefaultBuckets(granularity) ==
    CASE granularity = "monthly" -> 12
      [] granularity = "quarterly" -> 16
      [] granularity = "yearly" -> 10

\* C26: with neither start nor end supplied the period ends at the bucket of
\* today (first of the month, first day of the calendar quarter, January 1)
\* and starts 11 months, 45 months or 9 years earlier: both bounds are bucket
\* starts and the window has 12, 16 or 10 buckets, for every today.
C26_DefaultWindow ==
    (request # NoRequest /\ request.start = NullDate /\ request.end = NullDate)
       => /\ response.status = 200
          /\ IsBucketStart(request.granularity, response.end)
          /\ response.end <= request.today
          /\ MonthIndex(request.today) - MonthIndex(response.end)
                < BucketMonths
          /\ IsBucketStart(request.granularity, response.start)
          /\ MonthIndex(response.end) - MonthIndex(response.start)
                = (DefaultBuckets(request.granularity) - 1)
                     * BucketMonths
          /\ Len(response.points) = DefaultBuckets(request.granularity)
          /\ \A i \in DOMAIN response.points :
                /\ IsBucketStart(request.granularity, response.points[i].periodStart)
                /\ MonthIndex(response.points[i].periodStart)
                      = MonthIndex(response.start)
                           + (i - 1) * BucketMonths

\* C26 witness: default windows served on the leap day, quarterly, and on a
\* day of January, monthly, whose start is in the year before
C26_Witness ==
    /\ request # NoRequest
    /\ request.start = NullDate /\ request.end = NullDate
    /\ \/ /\ request.today = MakeDate(2024, 2, 29)
          /\ request.granularity = "quarterly"
          /\ response.start = MakeDate(2020, 4, 1)
          /\ response.end = MakeDate(2024, 1, 1)
       \/ /\ request.today = MakeDate(2024, 1, 31)
          /\ request.granularity = "monthly"
          /\ response.start = MakeDate(2023, 2, 1)
          /\ response.end = MakeDate(2024, 1, 1)

(***************************************************************************)
(* The balance of a window, over SpecAttrition.                            *)
(***************************************************************************)
\* every record of latest has a join date, and a last working day, if any,
\* not before it
DatedConsistently ==
    \A ed \in snapshot.latest :
       ed.DOJ # NullDate /\ (ed.FinalLWD = NullDate \/ ed.FinalLWD >= ed.DOJ)

\* the identities of latest that joined inside window y
JoinedWithin(y) ==
    {ed \in snapshot.latest :
        ed.DOJ # NullDate /\ y.year_start <= ed.DOJ /\ ed.DOJ < y.year_end}

\* headcount_end = headcount_start + joins - exits in the i-th overall row
Balanced(i) ==
    rows.overall_rows[i].headcount_end
       = rows.overall_rows[i].headcount_start
            + Cardinality(JoinedWithin(year_bounds(Cutoff)[i]))
            - rows.overall_rows[i].exits

\* C27: when every record of latest has a DOJ and an LWD that is null or not
\* before the DOJ, every fiscal window balances: headcount_end =
\* headcount_start + (identities with year_start <= DOJ < year_end) - exits.
C27_HeadcountBalance ==
    (IsAttritionResponse /\ DatedConsistently)
       => \A i \in DOMAIN rows.overall_rows : Balanced(i)

\* C27 witness: under the data condition a window opens with one identity,
\* one joins and one leaves inside it
C27_Witness ==
    /\ IsAttritionResponse
    /\ DatedConsistently
    /\ \E i \in DOMAIN rows.overall_rows :
          /\ rows.overall_rows[i].headcount_start = 1
          /\ Cardinality(JoinedWithin(year_bounds(Cutoff)[i])) = 1
          /\ rows.overall_rows[i].exits = 1
          /\ rows.overall_rows[i].headcount_end = 1

(***************************************************************************)
(* One bound supplied, over SpecPeriod.                                    *)
(***************************************************************************)
\* the first days of the months of the ten years up to the year of day x
MonthStartsUpTo(x) ==
    {MakeDate(y, m, 1) : y \in (YearOf(x) - 10)..YearOf(x), m \in 1..12}

\* the start of the bucket of the requested granularity that holds today
ExpectedEndDefault ==
    CHOOSE x \in {MakeDate(YearOf(request.today), m, 1) : m \in 1..12} :
       /\ IsBucketStart(request.granularity, x)
       /\ x <= request.today
       /\ MonthIndex(request.today) - MonthIndex(x) < BucketMonths

\* the bucket start 11, 15 or 9 buckets before the default end
ExpectedStartDefault ==
    LET end_default == ExpectedEndDefault
    IN CHOOSE x \in MonthStartsUpTo(request.today) :
          /\ IsBucketStart(request.granularity, x)
          /\ MonthIndex(end_default) - MonthIndex(x)
                = (DefaultBuckets(request.granularity) - 1) * BucketMonths

ExpectedStart == IF request.start # NullDate THEN request.start ELSE ExpectedStartDefault

ExpectedEnd == IF request.end # NullDate THEN request.end ELSE ExpectedEndDefault

\* C28: with exactly one of start and end supplied the other bound is its
\* default, and the request fails with the invalid-range error exactly when
\* the resolved end is before the resolved start; with neither supplied it
\* never fails so.
C28_OneBoundSupplied ==
    (request # NoRequest /\ (request.start = NullDate \/ request.end = NullDate))
       => /\ response.status \in {200, 400}
          /\ response.status = 400 <=> ExpectedEnd < ExpectedStart
          /\ response.status = 400 => response.detail = "End date must be after start date."
          /\ response.status = 200 =>
                response.start = ExpectedStart /\ response.end = ExpectedEnd
          /\ (request.start = NullDate /\ request.end = NullDate) => response.status = 200

\* C28 witness: a supplied start later than the floor of today fails, and a
\* supplied start equal to the default end is served
C28_Witness ==
    /\ request # NoRequest
    /\ request.end = NullDate
    /\ \/ request.start = MakeDate(2024, 6, 1) /\ response.status = 400
       \/ /\ request.start = MakeDate(2024, 2, 1)
          /\ response.status = 200
          /\ response.end = MakeDate(2024, 2, 1)

(***************************************************************************)
(* Accounts: password reset.  The clock counts hours.  reset_password is   *)
(* two statements, each a transaction of its own: the UPDATE of            *)
(* "PasswordReset" that claims the token, and the UPDATE of "User".  In    *)
(* SpecReset request and response hold, per client, the reset request in   *)
(* flight and its response, and the response of the last forgot request.   *)
(***************************************************************************)
\* timedelta(hours=2)
ResetLifetime == 2

\* raise ValueError("Password cannot be empty.")
ValueError == [error |-> "Password cannot be empty."]

\* hash_password: the hash is a function of the password and of the salt,
\* secrets.token_bytes(16)
hash_password(password, salt) ==
    IF password = "" THEN ValueError ELSE [password |-> password, salt |-> salt]

\* LOWER(text) over the addresses of the model
LOWER(text) == IF text = "A@X.IO" THEN "a@x.io" ELSE text

\* forgot_password: a user with the address gets a reset row that expires in
\* two hours, and then the mail is sent; returncode is that of the mail command
forgot_password(email, returncode) ==
    /\ \/ /\ \A u \in DOMAIN User : LOWER(User[u].email) # LOWER(email)
          /\ PasswordReset' = PasswordReset
          /\ response' = [response EXCEPT !.forgot =
                [status |-> 200,
                 message |-> "If the account exists, a reset link has been sent."]]
       \/ \E u \in DOMAIN User :
             /\ LOWER(User[u].email) = LOWER(email)
             /\ Cardinality(PasswordReset) < MaxResets
             /\ PasswordReset' = PasswordReset \cup
                   {[token |-> Cardinality(PasswordReset) + 1, userId |-> u,
                     expiresAt |-> now + ResetLifetime, usedAt |-> NoInt]}
             /\ response' = [response EXCEPT !.forgot =
                   IF returncode # 0
                   THEN [status |-> 500, detail |-> "Unable to send reset email."]
                   ELSE [status |-> 200,
                         message |-> "If the account exists, a reset link has been sent."]]
    /\ UNCHANGED <<analytics, Organization, User, DashboardRelease, now>>
    /\ UNCHANGED <<request, snapshot, rows>>

\* a faulty variant: a used token is claimed again (no "usedAt" IS NULL)
ClaimableResets_UsedToo(token) ==
    {r \in PasswordReset : r.token = token /\ r.expiresAt >= now}

\* WHERE "token" = %(token)s AND "usedAt" IS NULL AND "expiresAt" >= NOW()
ClaimableResets(token) ==
    {r \in PasswordReset : r.token = token /\ r.usedAt = NoInt /\ r.expiresAt >= now}

\* reset_password, first statement: UPDATE "PasswordReset" SET "usedAt" = NOW()
\* ... RETURNING "userId"; without a row the request fails
reset_password_claim(client, token, password) ==
    /\ request[client] = NoRequest
    /\ \E claimed \in {ClaimableResets(token)} :
         IF claimed = {}
         THEN /\ request' = [request EXCEPT ![client] =
                    [endpoint |-> "reset", token |-> token, password |-> password,
                     pc |-> "done", userId |-> NULL, at |-> now]]
              /\ response' = [response EXCEPT ![client] =
                    [status |-> 400, detail |-> "Reset link is invalid or expired."]]
              /\ PasswordReset' = PasswordReset
         ELSE \E reset_row \in claimed :
                /\ request' = [request EXCEPT ![client] =
                      [endpoint |-> "reset", token |-> token, password |-> password,
                       pc |-> "update", userId |-> reset_row.userId, at |-> now]]
                /\ response' = response
                /\ PasswordReset' =
                      (PasswordReset \ claimed)
                         \cup {[r EXCEPT !.usedAt = now] : r \in claimed}
    /\ UNCHANGED <<analytics, Organization, User, DashboardRelease, now>>
    /\ UNCHANGED <<snapshot, rows>>

\* reset_password, second statement: the password is hashed and written to
\* the user of the reset row
reset_password_update(client, salt) ==
    /\ request[client] # NoRequest
    /\ request[client].pc = "update"
    /\ request' = [request EXCEPT ![client].pc = "done"]
    /\ \E password_hash \in {hash_password(request[client].password, salt)} :
         IF password_hash = ValueError
         THEN /\ response' = [response EXCEPT ![client] =
                    [status |-> 500, detail |-> "Internal Server Error"]]
              /\ User' = User
         ELSE /\ response' = [response EXCEPT ![client] =
                    [status |-> 200, message |-> "Password updated."]]
              /\ User' = [u \in DOMAIN User |->
                            IF u = request[client].userId
                            THEN [User[u] EXCEPT !.passwordHash = password_hash,
                                                 !.passwordChangedAt = now]
                            ELSE User[u]]
    /\ UNCHANGED <<analytics, Organization, PasswordReset, DashboardRelease, now>>
    /\ UNCHANGED <<snapshot, rows>>

\* an hour passes
Tick ==
    /\ now < MaxTime
    /\ now' = now + 1
    /\ UNCHANGED <<analytics, Organization, User, PasswordReset, DashboardRelease>>
    /\ UNCHANGED <<request, snapshot, rows, response>>

(***************************************************************************)
(* Specification SpecReset: one user, reset links requested and two        *)
(* clients that each send one reset request, while the hours pass.         *)
(***************************************************************************)
ResetClients == {"c1", "c2"}

ResetUsers ==
    [u1 |-> [email |-> "a@x.io", role |-> "ORG_ADMIN", organizationId |-> "o1",
             passwordHash |-> hash_password("old", 0), passwordChangedAt |-> NoInt]]

InitReset ==
    /\ Upload = <<>>
    /\ DashboardMonth = {}
    /\ employee_dashboard_master = {}
    /\ Organization = {"o1"}
    /\ User = ResetUsers
    /\ PasswordReset = {}
    /\ DashboardRelease = {}
    /\ now = 0
    /\ request = [c \in ResetClients |-> NoRequest]
    /\ snapshot = NoSnapshot
    /\ rows = <<>>
    /\ response = [c \in ResetClients \cup {"forgot"} |-> NoResponse]

ResetForgot ==
    \E email \in {"A@X.IO", "b@x.io"}, returncode \in {0, 1} :
       forgot_password(email, returncode)

\* the clients are alike: c2 sends its request once c1 has sent one
ResetClaim ==
    \E client \in ResetClients, token \in 1..MaxResets, password \in {"", "p1"} :
       /\ client = "c2" => request["c1"] # NoRequest
       /\ reset_password_claim(client, token, password)

ResetUpdate ==
    \E client \in ResetClients, salt \in {1, 2} : reset_password_update(client, salt)

NextReset == ResetForgot \/ ResetClaim \/ ResetUpdate \/ Tick

SpecReset == InitReset /\ [][NextReset]_vars

\* the clients whose request claimed the token
Claimants(token) ==
    {c \in ResetClients :
        /\ request[c] # NoRequest
        /\ request[c].token = token
        /\ request[c].userId # NULL}

\* at most one request per token gets past the claim, it got there before the
\* token expired, and every other request with the token has failed
TokenUsedOnce ==
    \A token \in 1..MaxResets :
       /\ Cardinality(Claimants(token)) <= 1
       /\ \A c \in Claimants(token) :
             \E r \in PasswordReset :
                r.token = token /\ r.usedAt = request[c].at /\ request[c].at <= r.expiresAt
       /\ \A c \in ResetClients :
             (request[c] # NoRequest /\ request[c].token = token /\ c \notin Claimants(token))
                => response[c] =
                      [status |-> 400, detail |-> "Reset link is invalid or expired."]
       /\ \A c \in ResetClients :
             (request[c] # NoRequest /\ response[c].status = 200)
                => c \in Claimants(request[c].token)

\* a request arrives: it fails exactly when its token was never issued, has
\* been used or has expired
FailsWhenUsedOrExpired ==
    \A c \in ResetClients :
       (request[c] = NoRequest /\ request'[c] # NoRequest)
          => (response'[c].status = 400
                <=> \A r \in PasswordReset :
                       r.token = request'[c].token => (r.usedAt # NoInt \/ r.expiresAt < now))

\* a step that fails a reset request changes no user, and a step that changes
\* a user is the update of the one claimant of a token, for the token's user
FailureChangesNothing ==
    /\ \A c \in ResetClients :
          (response'[c] # response[c] /\ response'[c].status # 200) => User' = User
    /\ User' # User =>
          \E c \in ResetClients :
             /\ response[c] = NoResponse /\ response'[c].status = 200
             /\ Claimants(request[c].token) = {c}
             /\ \A u \in DOMAIN User : User'[u] # User[u] => u = request[c].userId

\* C29: a reset token leads to at most one password update: the request that
\* claims it before it expires; every later or concurrent request with the
\* token fails with "invalid or expired" and changes no password, and two
\* racing requests never both succeed.
C29_TokenSingleUse ==
    []TokenUsedOnce /\ [][FailsWhenUsedOrExpired /\ FailureChangesNothing]_vars

\* C29 witness: two requests with the same token have been answered, one
\* with the password updated to its own, the other with the failure
C29_Witness ==
    \E c, d \in ResetClients :
       /\ request[c] # NoRequest /\ request[d] # NoRequest
       /\ c # d /\ request[c].token = request[d].token
       /\ response[c].status = 200
       /\ response[d] = [status |-> 400, detail |-> "Reset link is invalid or expired."]
       /\ User["u1"].passwordHash.password = request[c].password

(***************************************************************************)
(* Accounts: release of a dashboard.  Every statement of release_dashboard *)
(* is a transaction of its own, committed when it returns; the mail is     *)
(* sent between the UPDATE of "User" and the INSERT of "DashboardRelease". *)
(***************************************************************************)
\* SELECT ... FROM "User" WHERE "organizationId" = ... AND "role" = 'ORG_ADMIN'
\* ORDER BY "email" LIMIT 1: the organizations of the model have one admin
OrgAdmins(org_id) ==
    {u \in DOMAIN User : User[u].organizationId = org_id /\ User[u].role = "ORG_ADMIN"}

\* INSERT INTO "DashboardRelease" ... SELECT ... FROM "DashboardMonth" dm WHERE
\* dm."monthKey" = ... ON CONFLICT (...) DO UPDATE SET "releasedAt" = NOW()
UpsertRelease(org_id, month_key) ==
    LET months == {dm.id : dm \in {d \in DashboardMonth : d.monthKey = month_key}}
    IN {r \in DashboardRelease :
           ~(r.organizationId = org_id /\ r.dashboardMonthId \in months)}
       \cup {[organizationId |-> org_id, dashboardMonthId |-> m, releasedAt |-> now] :
                m \in months}

\* release_dashboard; temp_password and salt are what _generate_temp_password
\* and hash_password draw, returncode is that of the mail command
release_dashboard(organization_id, month_key, temp_password, salt, returncode) ==
    /\ request' = [endpoint |-> "release-dashboard", organization_id |-> organization_id,
                   month_key |-> month_key, returncode |-> returncode]
    /\ \E scope \in _resolve_org_month_scope(organization_id, month_key) :
         IF scope.status = 404
         THEN /\ response' = [status |-> 404, detail |-> "Dashboard month not found."]
              /\ UNCHANGED <<User, DashboardRelease>>
         ELSE IF scope.org_id = NULL \/ scope.month_key = NULL
         THEN /\ response' = [status |-> 400, detail |-> "Invalid organization or month."]
              /\ UNCHANGED <<User, DashboardRelease>>
         ELSE IF scope.org_id \notin Organization
         THEN /\ response' = [status |-> 404, detail |-> "Organization not found."]
              /\ UNCHANGED <<User, DashboardRelease>>
         ELSE IF OrgAdmins(scope.org_id) = {}
         THEN /\ response' = [status |-> 404,
                              detail |-> "Organization admin not found for this organization."]
              /\ UNCHANGED <<User, DashboardRelease>>
         ELSE \E admin \in OrgAdmins(scope.org_id) :
               \E credentials_sent \in {User[admin].passwordChangedAt = NoInt} :
                /\ User' = IF credentials_sent
                           THEN [User EXCEPT ![admin].passwordHash =
                                    hash_password(temp_password, salt)]
                           ELSE User
                /\ IF returncode # 0
                   THEN /\ response' = [status |-> 500,
                                        detail |-> "Unable to send release email."]
                        /\ UNCHANGED DashboardRelease
                   ELSE /\ DashboardRelease' = UpsertRelease(scope.org_id, scope.month_key)
                        /\ response' =
                              [status |-> 200,
                               message |-> "Dashboard released to organization admin.",
                               organizationId |-> scope.org_id,
                               monthKey |-> scope.month_key,
                               adminEmail |-> User[admin].email,
                               credentialsSent |-> credentials_sent]
    /\ UNCHANGED <<analytics, Organization, PasswordReset, now>>
    /\ UNCHANGED <<snapshot, rows>>

(***************************************************************************)
(* Specification SpecRelease: dashboards of one organization released, to  *)
(* an admin who has or has not changed the password, while the hours pass. *)
(***************************************************************************)
\* the admin of o1 before and after the first change of password, and an
\* organization without admin
ReleaseUsers ==
    {[u1 |-> [email |-> "a@x.io", role |-> role, organizationId |-> "o1",
              passwordHash |-> hash_password("old", 0), passwordChangedAt |-> changed]] :
        role \in {"ORG_ADMIN", "USER"}, changed \in {NoInt, 0}}

InitRelease ==
    /\ Upload \in ConsistencyUploads
    /\ DashboardMonth = SnapshotMonths
    /\ employee_dashboard_master = {}
    /\ Organization = {"o1"}
    /\ User \in ReleaseUsers
    /\ PasswordReset = {}
    /\ DashboardRelease \in
          SUBSET {[organizationId |-> "o1", dashboardMonthId |-> "m1", releasedAt |-> 0]}
    /\ now = 0
    /\ request = NoRequest
    /\ snapshot = NoSnapshot
    /\ rows = <<>>
    /\ response = NoResponse

ReleaseRequest ==
    \E organization_id \in {NULL, "o1", "o2"}, month_key \in {NULL, "2024-06", "2024-05"},
       salt \in {1, 2}, returncode \in {0, 1} :
       release_dashboard(organization_id, month_key, "temp", salt, returncode)

NextRelease == ReleaseRequest \/ Tick

SpecRelease == InitRelease /\ [][NextRelease]_vars

\* C30: a release request that fails because the mail could not be sent
\* leaves the store as it was: no "DashboardRelease" row is created or
\* updated and the password hash of the admin is the one before the request.
C30_FailedReleaseChangesNothing ==
    [][(/\ now' = now
        /\ request'.endpoint = "release-dashboard"
        /\ response' = [status |-> 500, detail |-> "Unable to send release email."])
          => (User' = User /\ DashboardRelease' = DashboardRelease)]_vars

====
